---- MODULE Spec2Model ----
(***************************************************************************)
(* Collision-Expansion-Viewer: the obstacle offsetting engine              *)
(* (collisionBoxExpansion.py) and the overlap detector                     *)
(* (CollisionDetector.py).                                                 *)
(*                                                                         *)
(* Numbers.  The program computes with Python floats.  Here a coordinate   *)
(* is a fixed-point integer, Scale units to the pixel; a quotient is       *)
(* rounded to the nearest unit (RoundDiv), a square root to the nearest    *)
(* unit (Norm), and cos/sin are tabulated to three decimals for the        *)
(* multiples of 18 degrees (the angles an unrotated or quarter-turned      *)
(* rectangle produces when its arcs are sampled in five steps).  On the    *)
(* axis-aligned inputs most claims speak about every operation below is    *)
(* exact.  Obstacle fields (x, y, width, height, distances) are whole      *)
(* pixels, as the ints the editor stores.                                  *)
(***************************************************************************)
EXTENDS Integers, Sequences, FiniteSets, TLC

VARIABLES
    obstacle,           \* the obstacle record handed to the engine / the candidate of check_overlap
    d_exp,              \* ObstacleExpander.d_exp
    force_convex_hull,  \* ObstacleExpander.force_convex_hull
    call,               \* the arguments of the last engine call
    result,             \* what the last engine call returned
    vertices,           \* a vertex sequence handed to the winding normalizer
    vertices0,          \* the sequence as first given
    applied,            \* how many times the normalizer has been applied
    obstacles_list,     \* the existing obstacles handed to check_overlap
    exclude,            \* the excluded obstacle (id 0: None)
    overlap,            \* what check_overlap returned
    points,             \* the points of a polygon being authored
    new_point,          \* the candidate point
    verdict,            \* what the authoring check returned
    segments,           \* the four end points handed to segments_intersect
    threads,            \* the calls of expand_obstacle in progress, one per thread
    obstacles,          \* Canvas.obstacles
    selected_obstacle,  \* Canvas.selected_obstacle, as a position in obstacles; 0 is None
    canvas,             \* the moving, rotating and drawing state of the Canvas
    main_window,        \* MainWindow.current_tool and the Finish Polygon button
    polygon_editor      \* PolygonEditor.points and PolygonEditor.is_drawing

vars == <<obstacle, d_exp, force_convex_hull, call, result, vertices, vertices0,
          applied, obstacles_list, exclude, overlap, points, new_point, verdict,
          segments, threads, obstacles, selected_obstacle, canvas, main_window,
          polygon_editor>>

\* the variables by the part of the program that owns them
expanderVars == <<d_exp, force_convex_hull>>
windingVars == <<vertices, vertices0, applied>>
overlapVars == <<obstacles_list, exclude, overlap>>
polygonVars == <<points, new_point, verdict, segments>>
canvasVars == <<obstacles, selected_obstacle, canvas, main_window, polygon_editor>>
engineVars == <<obstacle, expanderVars, call, result, windingVars, overlapVars, polygonVars, threads>>

-----------------------------------------------------------------------------
(* Arithmetic *)

Scale == 10

Abs(a) == IF a < 0 THEN -a ELSE a
Min2(a, b) == IF a <= b THEN a ELSE b
Max2(a, b) == IF a >= b THEN a ELSE b

RECURSIVE GCD(_, _)
GCD(a, b) == IF b = 0 THEN a ELSE GCD(b, a % b)

\* a / b rounded to the nearest integer (halves up), b # 0
RoundDiv(a, b) ==
    LET n == IF b < 0 THEN -a ELSE a
        d == Abs(b)
    IN  (2 * n + d) \div (2 * d)

\* (a * b) / c rounded, the fraction a / c reduced first
MulDiv(a, b, c) ==
    LET g == GCD(Abs(a), Abs(c))
    IN  IF g = 0 THEN 0 ELSE RoundDiv((a \div g) * b, c \div g)

RECURSIVE SqrtIter(_, _)
SqrtIter(n, x) ==
    LET y == (x + n \div x) \div 2
    IN  IF y >= x THEN x ELSE SqrtIter(n, y)

\* sqrt(n) rounded to the nearest integer
ISqrt(n) ==
    IF n <= 0 THEN 0
    ELSE LET r == SqrtIter(n, n) IN IF n - r * r > r THEN r + 1 ELSE r

\* np.linalg.norm of the vector (ex, ey)
Norm(ex, ey) == ISqrt(ex * ex + ey * ey)

\* int -> float: pixels to fixed-point units
Fx(n) == n * Scale

\* 1000 * cos(18 * k degrees), k = 0..19
CosTable == <<1000, 951, 809, 588, 309, 0, -309, -588, -809, -951,
              -1000, -951, -809, -588, -309, 0, 309, 588, 809, 951>>

\* math.cos / math.sin of an angle in degrees (a multiple of 18), times 1000
Cos1000(deg) == CosTable[(((deg % 360) + 360) % 360) \div 18 + 1]
Sin1000(deg) == Cos1000(deg - 90)

\* math.atan2(dy, dx) in degrees, for the axis-aligned vectors (atan2(0, 0) = 0)
Atan2Deg(dy, dx) ==
    CASE dy = 0 /\ dx >= 0 -> 0
      [] dy = 0 /\ dx < 0  -> 180
      [] dx = 0 /\ dy > 0  -> 90
      [] dx = 0 /\ dy < 0  -> -90

-----------------------------------------------------------------------------
(* Sequences of points *)

Reverse(s) == [i \in 1..Len(s) |-> s[Len(s) + 1 - i]]

\* s[(i + k) % n] of the source, i a 1-based index
At(s, i) == s[((i - 1) % Len(s)) + 1]

SeqSet(s) == {s[i] : i \in 1..Len(s)}

RECURSIVE SumSeq(_, _)
SumSeq(s, c) == IF s = <<>> THEN 0 ELSE Head(s)[c] + SumSeq(Tail(s), c)

\* np.mean(vertices, axis=0)
Mean(s) == <<RoundDiv(SumSeq(s, 1), Len(s)), RoundDiv(SumSeq(s, 2), Len(s))>>

Add(p, q) == <<p[1] + q[1], p[2] + q[2]>>

-----------------------------------------------------------------------------
(* The obstacle record *)

METHOD_PRESERVE_SHAPE == "preserve_shape"
METHOD_CONVEX == "convex"
METHOD_GENERALIZED == "generalized"

\* dict.get(key, default) for the keys whose absence the code can tell from a value
HasKey(ob, k) == k \in ob.keys
GetDistance(ob, default) ==
    IF HasKey(ob, "expansion_distance") THEN ob.expansion_distance ELSE default

\* rotate the local vertices about center by rotation degrees
Rotate(local, center, rotation) ==
    LET c == Cos1000(rotation)
        s == Sin1000(rotation)
    IN  [i \in 1..Len(local) |->
            LET vx == local[i][1] - center[1]
                vy == local[i][2] - center[2]
            IN  <<RoundDiv(vx * c - vy * s, 1000) + center[1],
                  RoundDiv(vx * s + vy * c, 1000) + center[2]>>]

Translate(local, x, y) == [i \in 1..Len(local) |-> <<local[i][1] + Fx(x), local[i][2] + Fx(y)>>]

RectangleLocal(width, height) ==
    <<  <<0, 0>>, <<Fx(width), 0>>, <<Fx(width), Fx(height)>>, <<0, Fx(height)>> >>

TriangleLocal(width, height) ==
    <<  <<Fx(width) \div 2, 0>>, <<Fx(width), Fx(height)>>, <<0, Fx(height)>> >>

PointsLocal(ob) == [i \in 1..Len(ob.points) |-> <<Fx(ob.points[i][1]), Fx(ob.points[i][2])>>]

LocalVertices(ob) ==
    CASE ob.type = "rectangle" -> RectangleLocal(ob.width, ob.height)
      [] ob.type = "triangle"  -> TriangleLocal(ob.width, ob.height)
      [] ob.type = "custom_polygon" /\ ob.points # <<>> -> PointsLocal(ob)
      [] OTHER -> RectangleLocal(ob.width, ob.height)

\* ObstacleExpander._obstacle_to_vertices
obstacle_to_vertices(ob) ==
    LET local == LocalVertices(ob)
        center == IF ob.type = "custom_polygon" THEN Mean(local)
                  ELSE <<Fx(ob.width) \div 2, Fx(ob.height) \div 2>>
        turned == IF ob.rotation # 0 /\ ob.can_rotate
                  THEN Rotate(local, center, ob.rotation) ELSE local
    IN  Translate(turned, ob.x, ob.y)

-----------------------------------------------------------------------------
(* Winding *)

RECURSIVE ShoelaceFrom(_, _)
ShoelaceFrom(v, i) ==
    IF i > Len(v) THEN 0
    ELSE v[i][1] * At(v, i + 1)[2] - At(v, i + 1)[1] * v[i][2] + ShoelaceFrom(v, i + 1)

\* the signed_area of _is_counter_clockwise
SignedArea(v) == ShoelaceFrom(v, 1)

\* ObstacleExpander._is_counter_clockwise
is_counter_clockwise(v) == SignedArea(v) > 0

\* the order reversed whatever the winding
ensure_counter_clockwise_always(v) == Reverse(v)
\* the order kept whatever the winding
ensure_counter_clockwise_never(v) == v
\* ObstacleExpander._ensure_counter_clockwise
ensure_counter_clockwise(v) == IF ~is_counter_clockwise(v) THEN Reverse(v) ELSE v

-----------------------------------------------------------------------------
(* Polygon offsetting *)

\* normal / normal_len * distance for the edge (ex, ey): the outward normal is
\* (ey, -ex); an edge of no length gives no offset
EdgeOffset(ex, ey, distance) ==
    LET len == Norm(ey, -ex)
    IN  IF len > 0 THEN <<RoundDiv(ey * distance, len), RoundDiv((-ex) * distance, len)>>
        ELSE <<0, 0>>

\* the expanded_edges loop shared by the mitered and the arc-generalized method
OffsetEdges(v, distance) ==
    [i \in 1..Len(v) |->
        LET v1 == v[i]
            v2 == At(v, i + 1)
            offset == EdgeOffset(v2[1] - v1[1], v2[2] - v1[2], distance)
        IN  <<Add(v1, offset), Add(v2, offset)>>]

\* the parallel-lines fallback taken for every pair of lines
line_intersection_midpoint(p1, p2, p3, p4) ==
    <<RoundDiv(p2[1] + p3[1], 2), RoundDiv(p2[2] + p3[2], 2)>>
\* ObstacleExpander._line_intersection
line_intersection(p1, p2, p3, p4) ==
    LET denom == (p1[1] - p2[1]) * (p3[2] - p4[2]) - (p1[2] - p2[2]) * (p3[1] - p4[1])
        tnum == (p1[1] - p3[1]) * (p3[2] - p4[2]) - (p1[2] - p3[2]) * (p3[1] - p4[1])
    IN  IF denom = 0
        THEN <<RoundDiv(p2[1] + p3[1], 2), RoundDiv(p2[2] + p3[2], 2)>>
        ELSE <<p1[1] + MulDiv(tnum, p2[1] - p1[1], denom),
               p1[2] + MulDiv(tnum, p2[2] - p1[2], denom)>>

\* the final_vertices loop: adjacent offset edges met as lines
MiterJoin(edges) ==
    [i \in 1..Len(edges) |->
        line_intersection(edges[i][1], edges[i][2], At(edges, i + 1)[1], At(edges, i + 1)[2])]

\* ObstacleExpander.expand_polygon_preserve_shape
expand_polygon_preserve_shape(v, d) ==
    MiterJoin(OffsetEdges(ensure_counter_clockwise(v), Fx(d)))

\* the two expansion points of vertex i: along the previous and the next edge's normal
BevelPoints(w, i, distance) ==
    LET curr == w[i]
        prev == At(w, i - 1 + Len(w))
        next == At(w, i + 1)
    IN  << Add(curr, EdgeOffset(curr[1] - prev[1], curr[2] - prev[2], distance)),
           Add(curr, EdgeOffset(next[1] - curr[1], next[2] - curr[2], distance)) >>

\* expanded_vertices.extend([exp_point_prev, exp_point_next]) for every vertex
BevelAll(w, distance) ==
    [k \in 1..(2 * Len(w)) |-> BevelPoints(w, (k + 1) \div 2, distance)[2 - (k % 2)]]

\* ObstacleExpander.expand_polygon_convex
expand_polygon_convex(v, d) == BevelAll(ensure_counter_clockwise(v), Fx(d))

\* the edges moved along the inward normal
expand_polygon_generalized_inward(v, d) ==
    [edges |-> OffsetEdges(ensure_counter_clockwise(v), -Fx(d)),
     centers |-> ensure_counter_clockwise(v), radius |-> d]
\* ObstacleExpander.expand_polygon_generalized
expand_polygon_generalized(v, d) ==
    LET w == ensure_counter_clockwise(v)
    IN  [edges |-> OffsetEdges(w, Fx(d)), centers |-> w, radius |-> d]

-----------------------------------------------------------------------------
(* Convex hull (scipy.spatial.ConvexHull) *)

\* (b - a) x (c - b): positive for a turn in the sense the shoelace sum counts positive
Cross(a, b, c) == (b[1] - a[1]) * (c[2] - b[2]) - (b[2] - a[2]) * (c[1] - b[1])

OnSegment(a, p, b) ==
    /\ Cross(a, p, b) = 0
    /\ Min2(a[1], b[1]) <= p[1] /\ p[1] <= Max2(a[1], b[1])
    /\ Min2(a[2], b[2]) <= p[2] /\ p[2] <= Max2(a[2], b[2])

InTriangle(p, a, b, c) ==
    LET s1 == Cross(a, b, p)
        s2 == Cross(b, c, p)
        s3 == Cross(c, a, p)
    IN  /\ Cross(a, b, c) # 0
        /\ \/ s1 >= 0 /\ s2 >= 0 /\ s3 >= 0
           \/ s1 <= 0 /\ s2 <= 0 /\ s3 <= 0

\* the points of S that are corners of its convex hull
ExtremePoints(S) ==
    {p \in S :
        LET R == S \ {p}
        IN  /\ \A a, b \in R : ~OnSegment(a, p, b)
            /\ \A a, b, c \in R : ~InTriangle(p, a, b, c)}

Lex(p, q) == p[1] < q[1] \/ (p[1] = q[1] /\ p[2] <= q[2])

\* the hull's corners in positive order, from the least corner
HullCycle(E) ==
    LET n == Cardinality(E)
        first == CHOOSE p \in E : \A q \in E : Lex(p, q)
    IN  CHOOSE s \in [1..n -> E] :
            /\ s[1] = first
            /\ \A i, j \in 1..n : i # j => s[i] # s[j]
            /\ \A i \in 1..n : Cross(s[i], At(s, i + 1), At(s, i + 2)) > 0

\* ObstacleExpander._compute_convex_hull; start is where hull.vertices begins,
\* which ConvexHull leaves open
compute_convex_hull(v, start) ==
    LET E == ExtremePoints(SeqSet(v))
        n == Cardinality(E)
    IN  IF Len(v) < 3 \/ n < 3 THEN v
        ELSE LET cyc == HullCycle(E)
             IN  ensure_counter_clockwise([i \in 1..n |-> At(cyc, i + start)])

-----------------------------------------------------------------------------
(* What expand_obstacle returns: None, a polygon (preserve_shape, convex), the
   tuple (edges, arc_centers, arc_radius) (generalized), or a raised ValueError *)

NoneResult == [kind |-> "none", vertices |-> <<>>, edges |-> <<>>, centers |-> <<>>, radius |-> 0]
PolygonResult(v) == [kind |-> "polygon", vertices |-> v, edges |-> <<>>, centers |-> <<>>, radius |-> 0]
ArcResult(e, c, r) == [kind |-> "arcs", vertices |-> <<>>, edges |-> e, centers |-> c, radius |-> r]
ErrorResult == [kind |-> "error", vertices |-> <<>>, edges |-> <<>>, centers |-> <<>>, radius |-> 0]

-----------------------------------------------------------------------------
(* Directional offsetting *)

DirSum(dir) == dir.north + dir.south + dir.east + dir.west
DirMax(dir) == Max2(Max2(dir.north, dir.south), Max2(dir.east, dir.west))
AnyDirPositive(dir) == dir.north > 0 \/ dir.south > 0 \/ dir.east > 0 \/ dir.west > 0
AllDirZero(dir) == dir.north = 0 /\ dir.south = 0 /\ dir.east = 0 /\ dir.west = 0

\* edges.append([v1, v2]) over the closed vertex sequence
ClosedEdges(w) == [i \in 1..Len(w) |-> <<w[i], At(w, i + 1)>>]

\* the method switch that ends both directional routines
DirectionalByMethod(world, ob) ==
    LET dir == ob.directional_expansion
    IN  CASE ob.expansion_method = METHOD_GENERALIZED ->
                ArcResult(ClosedEdges(world), world, DirMax(dir))
          [] ob.expansion_method = METHOD_CONVEX ->
                PolygonResult(BevelAll(world, RoundDiv(Fx(DirSum(dir)), 4)))
          [] OTHER -> PolygonResult(world)

DirectionalRectangleLocal(ob) ==
    LET dir == ob.directional_expansion
    IN  <<  <<-Fx(dir.west), -Fx(dir.north)>>,
            <<Fx(ob.width) + Fx(dir.east), -Fx(dir.north)>>,
            <<Fx(ob.width) + Fx(dir.east), Fx(ob.height) + Fx(dir.south)>>,
            <<-Fx(dir.west), Fx(ob.height) + Fx(dir.south)>> >>

\* every side moved by the largest of the four distances
expand_rectangle_directional_uniform(ob) ==
    LET m == DirMax(ob.directional_expansion)
    IN  DirectionalByMethod(
            Translate(<<  <<-Fx(m), -Fx(m)>>, <<Fx(ob.width) + Fx(m), -Fx(m)>>,
                          <<Fx(ob.width) + Fx(m), Fx(ob.height) + Fx(m)>>,
                          <<-Fx(m), Fx(ob.height) + Fx(m)>> >>, ob.x, ob.y), ob)
\* ObstacleExpander.expand_rectangle_directional
expand_rectangle_directional(ob) ==
    IF ob.type # "rectangle" THEN ErrorResult
    ELSE IF AllDirZero(ob.directional_expansion) THEN NoneResult
    ELSE LET local == DirectionalRectangleLocal(ob)
             center == <<Fx(ob.width) \div 2, Fx(ob.height) \div 2>>
             turned == IF ob.rotation # 0 THEN Rotate(local, center, ob.rotation) ELSE local
         IN  DirectionalByMethod(Translate(turned, ob.x, ob.y), ob)

\* the per-edge offset of expand_polygon_directional: the directional vector of
\* the edge's quadrants projected on the edge's unit normal, along that normal
QuadrantOffset(v1, v2, center, dir) ==
    LET my == v1[2] + v2[2]
        mx == v1[1] + v2[1]
        expansion_y == (IF my < 2 * center[2] THEN -Fx(dir.north) ELSE 0)
                       + (IF my > 2 * center[2] THEN Fx(dir.south) ELSE 0)
        expansion_x == (IF mx < 2 * center[1] THEN -Fx(dir.west) ELSE 0)
                       + (IF mx > 2 * center[1] THEN Fx(dir.east) ELSE 0)
        ex == v2[1] - v1[1]
        ey == v2[2] - v1[2]
        len2 == ex * ex + ey * ey
        dot == expansion_x * ey - expansion_y * ex
    IN  IF len2 = 0 THEN <<0, 0>>
        ELSE <<MulDiv(dot, ey, len2), MulDiv(dot, -ex, len2)>>

\* ObstacleExpander._get_local_vertices_for_type (triangle)
get_local_vertices_for_type(ob) == TriangleLocal(ob.width, ob.height)

\* ObstacleExpander.expand_polygon_directional
expand_polygon_directional(ob) ==
    IF ob.type \notin {"triangle", "pentagon", "hexagon"} THEN ErrorResult
    ELSE IF AllDirZero(ob.directional_expansion) THEN NoneResult
    ELSE LET local == get_local_vertices_for_type(ob)
             center == Mean(local)
             expanded == [i \in 1..Len(local) |->
                            LET off == QuadrantOffset(local[i], At(local, i + 1), center,
                                                      ob.directional_expansion)
                            IN  <<Add(local[i], off), Add(At(local, i + 1), off)>>]
             final == MiterJoin(expanded)
             turned == IF ob.rotation # 0 THEN Rotate(final, center, ob.rotation) ELSE final
         IN  DirectionalByMethod(Translate(turned, ob.x, ob.y), ob)

-----------------------------------------------------------------------------
(* expand_obstacle *)

\* the uniform branch of expand_obstacle, lines 119-160: distance is the resolved
\* expansion distance, which d_exp holds during the call
ExpandUniform(ob, method, use_convex_hull, distance, start) ==
    LET v0 == obstacle_to_vertices(ob)
        v == IF use_convex_hull THEN compute_convex_hull(v0, start) ELSE v0
    IN  CASE method = METHOD_PRESERVE_SHAPE -> PolygonResult(expand_polygon_preserve_shape(v, distance))
          [] method = METHOD_CONVEX -> PolygonResult(expand_polygon_convex(v, distance))
          [] method = METHOD_GENERALIZED ->
                LET g == expand_polygon_generalized(v, distance)
                IN  ArcResult(g.edges, g.centers, g.radius)
          [] OTHER -> ErrorResult

\* use_convex_hull as lines 124-127 resolve it; arg is "None", "True" or "False"
ResolveConvexHull(ob, arg, field) ==
    IF HasKey(ob, "force_convex_hull") THEN ob.force_convex_hull
    ELSE IF arg # "None" THEN arg = "True" ELSE field

\* ObstacleExpander.expand_obstacle(obstacle, method, force_convex_hull) on an
\* expander whose fields are dexp and fchfield
expand_obstacle(ob, method, fcharg, dexp, fchfield, start) ==
    IF /\ ob.use_directional_expansion
       /\ AnyDirPositive(ob.directional_expansion)
       /\ ob.type = "rectangle"
    THEN expand_rectangle_directional(ob)
    ELSE IF /\ ob.use_directional_expansion
            /\ AnyDirPositive(ob.directional_expansion)
            /\ ob.type \in {"triangle", "pentagon", "hexagon"}
    THEN expand_polygon_directional(ob)
    ELSE LET expansion_dist == GetDistance(ob, dexp)
         IN  IF expansion_dist <= 0 THEN NoneResult
             ELSE ExpandUniform(ob,
                                IF method = "None" THEN ob.expansion_method ELSE method,
                                ResolveConvexHull(ob, fcharg, fchfield),
                                expansion_dist, start)

-----------------------------------------------------------------------------
(* The obstacles the engine is exercised on *)

NoDirections == [north |-> 0, south |-> 0, east |-> 0, west |-> 0]

\* a dict as Canvas.create_obstacle / PolygonEditor.create_obstacle builds it
Obstacle(id, type, x, y, width, height, pts) ==
    [id |-> id, type |-> type, x |-> x, y |-> y, width |-> width, height |-> height,
     rotation |-> 0, can_rotate |-> type # "custom_polygon", points |-> pts,
     expansion_distance |-> 0, expansion_method |-> METHOD_GENERALIZED,
     force_convex_hull |-> FALSE, use_directional_expansion |-> FALSE,
     directional_expansion |-> NoDirections,
     keys |-> {"expansion_distance", "force_convex_hull"}]

NoObstacle == Obstacle(0, "rectangle", 0, 0, 0, 0, <<>>)

\* bounds of the input families
MaxSizes == 2
MaxPlaces == 2
MaxPolygons == 5
MaxHullStart == 1

\* width, height
Sizes == << <<100, 100>>, <<60, 40>>, <<50, 50>>, <<40, 80>> >>
\* x, y
Places == << <<0, 0>>, <<30, -20>>, <<-40, 10>>, <<15, 25>> >>

\* authored point lists in local coordinates: a square listed in positive and in
\* negative order, a 3-4-5 triangle in both orders, an L in both orders, a second triangle
Polygons ==
    <<  << <<0, 0>>, <<40, 0>>, <<40, 40>>, <<0, 40>> >>,
        << <<0, 0>>, <<0, 40>>, <<40, 40>>, <<40, 0>> >>,
        << <<0, 0>>, <<40, 0>>, <<0, 30>> >>,
        << <<0, 0>>, <<0, 30>>, <<40, 0>> >>,
        << <<0, 0>>, <<60, 0>>, <<60, 20>>, <<20, 20>>, <<20, 60>>, <<0, 60>> >>,
        << <<0, 60>>, <<20, 60>>, <<20, 20>>, <<60, 20>>, <<60, 0>>, <<0, 0>> >>,
        << <<0, 0>>, <<30, 40>>, <<0, 40>> >> >>

SizeIndex == 1..Min2(MaxSizes, Len(Sizes))
PlaceIndex == 1..Min2(MaxPlaces, Len(Places))
PolygonIndex == 1..Min2(MaxPolygons, Len(Polygons))

MaxCoord(pts, c) ==
    CHOOSE m \in {pts[i][c] : i \in 1..Len(pts)} : \A i \in 1..Len(pts) : pts[i][c] <= m

Rotations == {0, 90}

Rectangles ==
    {[Obstacle(1, "rectangle", Places[p][1], Places[p][2], Sizes[s][1], Sizes[s][2], <<>>)
        EXCEPT !.rotation = r] : p \in PlaceIndex, s \in SizeIndex, r \in Rotations}

Triangles ==
    {[Obstacle(1, "triangle", Places[1][1], Places[1][2], Sizes[2][1], Sizes[2][2], <<>>)
        EXCEPT !.rotation = r] : r \in Rotations}

CustomPolygons ==
    {Obstacle(1, "custom_polygon", Places[2][1], Places[2][2],
              MaxCoord(Polygons[k], 1), MaxCoord(Polygons[k], 2), Polygons[k]) :
        k \in PolygonIndex}

\* the kinds the vertex extraction has a branch for, and one it has none for
Kinds == {"rectangle", "triangle", "pentagon", "hexagon", "custom_polygon"}
UnknownKind == "circle"

UnknownKinds ==
    {Obstacle(1, UnknownKind, Places[1][1], Places[1][2], Sizes[1][1], Sizes[1][2], <<>>)}

\* a custom polygon whose dict carries a rotation although can_rotate is false
TurnedPolygons ==
    {[Obstacle(1, "custom_polygon", Places[2][1], Places[2][2],
               MaxCoord(Polygons[3], 1), MaxCoord(Polygons[3], 2), Polygons[3])
        EXCEPT !.rotation = 90]}

Methods == {METHOD_PRESERVE_SHAPE, METHOD_CONVEX, METHOD_GENERALIZED}
\* an expansion_method no branch knows
UnknownMethod == "spiral"

Distances == {0, 10}
DirectionalDistances == {0, 5}
Directions == [north : DirectionalDistances, south : DirectionalDistances,
               east : DirectionalDistances, west : DirectionalDistances]
FewDirections ==
    {NoDirections, [NoDirections EXCEPT !.north = 5],
     [north |-> 5, south |-> 5, east |-> 5, west |-> 5]}

\* uniform settings: expansion_distance present or not, any method,
\* force_convex_hull absent, False or True
UniformSettings(ob) ==
    {[ob EXCEPT !.expansion_distance = d[2], !.expansion_method = m,
                !.force_convex_hull = f[2],
                !.keys = (IF d[1] THEN {"expansion_distance"} ELSE {})
                         \cup (IF f[1] THEN {"force_convex_hull"} ELSE {})] :
        d \in {<<TRUE, 0>>, <<TRUE, 10>>, <<FALSE, 0>>},
        m \in Methods \cup {UnknownMethod},
        f \in {<<FALSE, FALSE>>, <<TRUE, FALSE>>, <<TRUE, TRUE>>}}

\* directional settings, as on_directional_expansion_changed leaves them
DirectionalSettings(ob, dirs) ==
    {[ob EXCEPT !.expansion_distance = d, !.expansion_method = m,
                !.use_directional_expansion = TRUE, !.directional_expansion = dir] :
        d \in Distances, m \in Methods \cup {UnknownMethod}, dir \in dirs}

ExpandInputs ==
    UNION {UniformSettings(ob) : ob \in Rectangles \cup Triangles \cup CustomPolygons
                                        \cup UnknownKinds \cup TurnedPolygons}
    \cup UNION {DirectionalSettings(ob, IF ob.rotation = 0 THEN Directions ELSE FewDirections) :
                    ob \in Rectangles}
    \cup UNION {DirectionalSettings(ob, FewDirections) : ob \in Triangles \cup CustomPolygons}

-----------------------------------------------------------------------------
(* The engine called on one obstacle *)

NoCall == [op |-> "none", method |-> "None", force_convex_hull |-> "None", start |-> 0]

NoVerdict == [crossing |-> FALSE, pairs |-> <<>>]

\* the parts a specification does not exercise stay as constructed
WindingIdle == vertices = <<>> /\ vertices0 = <<>> /\ applied = 0
OverlapIdle == obstacles_list = <<>> /\ exclude = NoObstacle /\ overlap = FALSE
PolygonIdle == points = <<>> /\ new_point = <<0, 0>> /\ verdict = NoVerdict /\ segments = <<>>
ThreadsIdle == threads = <<>>

\* Canvas.__init__, MainWindow.__init__ and PolygonEditor.__init__; left_down is
\* the left mouse button as the user holds it
NewCanvas ==
    [left_down |-> FALSE, is_moving |-> FALSE, is_rotating |-> FALSE, is_drawing |-> FALSE,
     move_offset |-> <<0, 0>>, move_has_overlap |-> FALSE, original_position |-> <<>>,
     draw_start_pos |-> <<>>, is_drawing_polygon |-> FALSE, events |-> 0]
NewWindow == [current_tool |-> "None", finish_polygon_btn |-> FALSE]
NewEditor == [points |-> <<>>, is_drawing |-> FALSE]

CanvasIdle ==
    /\ obstacles = <<>> /\ selected_obstacle = 0 /\ canvas = NewCanvas
    /\ main_window = NewWindow /\ polygon_editor = NewEditor
EngineIdle ==
    /\ obstacle = NoObstacle /\ d_exp = 0 /\ force_convex_hull = FALSE
    /\ call = NoCall /\ result = NoneResult

InitExpand ==
    /\ obstacle \in ExpandInputs
    /\ d_exp \in (IF HasKey(obstacle, "expansion_distance") THEN {0} ELSE Distances)
    /\ force_convex_hull \in (IF HasKey(obstacle, "force_convex_hull") THEN {FALSE} ELSE BOOLEAN)
    /\ call = NoCall
    /\ result = NoneResult
    /\ WindingIdle /\ OverlapIdle /\ PolygonIdle /\ ThreadsIdle /\ CanvasIdle

\* expander.expand_obstacle(obstacle, method, force_convex_hull): d_exp is set to
\* the resolved distance during the call and restored in the finally clause.
\* start: where ConvexHull begins its vertex list, when the hull is taken
ExpandObstacle(method, fcharg, start) ==
    /\ call.op = "none"
    /\ start = 0 \/ ResolveConvexHull(obstacle, fcharg, force_convex_hull)
    /\ result' = expand_obstacle(obstacle, method, fcharg, d_exp, force_convex_hull, start)
    /\ call' = [op |-> "expand_obstacle", method |-> method, force_convex_hull |-> fcharg,
                start |-> start]
    /\ d_exp' = d_exp
    /\ UNCHANGED <<obstacle, force_convex_hull, windingVars, overlapVars, polygonVars, threads, canvasVars>>

NextExpand ==
    \E method \in Methods \cup {"None"}, fcharg \in {"None", "True", "False"},
       start \in 0..MaxHullStart : ExpandObstacle(method, fcharg, start)

SpecExpand == InitExpand /\ [][NextExpand]_vars

-----------------------------------------------------------------------------
(* Claims about expand_obstacle *)

Called == call.op = "expand_obstacle"

\* the branch of expand_obstacle the call took
TookDirectional ==
    /\ obstacle.use_directional_expansion
    /\ AnyDirPositive(obstacle.directional_expansion)
    /\ obstacle.type \in {"rectangle", "triangle", "pentagon", "hexagon"}

ResolvedDistance == GetDistance(obstacle, d_exp)
ResolvedMethod == IF call.method = "None" THEN obstacle.expansion_method ELSE call.method

UniformCall(method) ==
    /\ Called
    /\ ~TookDirectional
    /\ ResolvedDistance > 0
    /\ ResolvedMethod = method

UnrotatedRectangle == obstacle.type = "rectangle" /\ obstacle.rotation = 0

\* the corners of the obstacle's rectangle pushed out by w, n, e, s pixels
InflatedCorners(ob, w, n, e, s) ==
    { <<Fx(ob.x - w), Fx(ob.y - n)>>, <<Fx(ob.x + ob.width + e), Fx(ob.y - n)>>,
      <<Fx(ob.x + ob.width + e), Fx(ob.y + ob.height + s)>>,
      <<Fx(ob.x - w), Fx(ob.y + ob.height + s)>> }

\* C1: the mitered expansion of an unrotated rectangle by a uniform distance
\* d > 0 has exactly 4 vertices, the corners of the rectangle inflated by d on
\* every side
C1_MiteredRectangle ==
    (UniformCall(METHOD_PRESERVE_SHAPE) /\ UnrotatedRectangle) =>
        /\ result.kind = "polygon"
        /\ Len(result.vertices) = 4
        /\ SeqSet(result.vertices) =
              InflatedCorners(obstacle, ResolvedDistance, ResolvedDistance,
                              ResolvedDistance, ResolvedDistance)

\* the 100x100 square at (0, 0) with d = 10 gives (-10,-10), (110,-10), (110,110), (-10,110)
C1_Witness ==
    /\ UniformCall(METHOD_PRESERVE_SHAPE) /\ UnrotatedRectangle
    /\ obstacle.x = 0 /\ obstacle.y = 0 /\ obstacle.width = 100 /\ obstacle.height = 100
    /\ ResolvedDistance = 10
    /\ result.vertices = << <<1100, -100>>, <<1100, 1100>>, <<-100, 1100>>, <<-100, -100>> >>


\* the vertex sequence expand_obstacle hands to the offsetting method
PassedPolygon ==
    IF ResolveConvexHull(obstacle, call.force_convex_hull, force_convex_hull)
    THEN compute_convex_hull(obstacle_to_vertices(obstacle), call.start)
    ELSE obstacle_to_vertices(obstacle)

Sub(p, q) == <<p[1] - q[1], p[2] - q[2]>>
Dot(p, q) == p[1] * q[1] + p[2] * q[2]
Twice(p) == <<2 * p[1], 2 * p[2]>>

\* p lies on the closed polygon w's boundary
OnBoundary(w, p) == \E i \in 1..Len(w) : OnSegment(w[i], p, At(w, i + 1))

\* the ray from p towards +x crosses the edge a-b (half-open in y)
RayCrosses(a, b, p) ==
    LET lo == IF a[2] <= b[2] THEN a ELSE b
        hi == IF a[2] <= b[2] THEN b ELSE a
    IN  /\ lo[2] <= p[2] /\ p[2] < hi[2]
        /\ Cross(lo, hi, p) < 0

\* p is strictly outside the polygon w (even-odd rule)
StrictlyOutside(w, p) ==
    /\ ~OnBoundary(w, p)
    /\ Cardinality({i \in 1..Len(w) : RayCrosses(w[i], At(w, i + 1), p)}) % 2 = 0

\* the arc-generalized result is the polygon w offset by d: one edge per edge of
\* w, each the edge moved by a vector of length d, square to the edge, that
\* carries the edge's midpoint out of the polygon; one centre per vertex
IsArcOffsetOf(r, w, d) ==
    /\ r.kind = "arcs"
    /\ Len(r.edges) = Len(w)
    /\ Len(r.centers) = Len(w)
    /\ r.radius = d
    /\ \A i \in 1..Len(w) :
        LET a == w[i]
            b == At(w, i + 1)
            t == Sub(r.edges[i][1], a)
        IN  /\ r.centers[i] = a
            /\ Sub(r.edges[i][2], b) = t
            /\ Dot(t, t) = Fx(d) * Fx(d)
            /\ Dot(t, Sub(b, a)) = 0
            /\ StrictlyOutside([k \in 1..Len(w) |-> Twice(w[k])], Add(Add(a, b), Twice(t)))

\* every edge of w has a whole number of units as its length, so that the unit
\* normal times d is computed without rounding
WholeEdges(w) ==
    \A i \in 1..Len(w) :
        LET e == Sub(At(w, i + 1), w[i])
        IN  Norm(e[1], e[2]) * Norm(e[1], e[2]) = Dot(e, e) /\ Dot(e, e) > 0

\* the polygon the claim speaks about: not degenerate, edges of whole length
ProperPolygon(w) == SignedArea(w) # 0 /\ WholeEdges(w)

\* C2 as stated: edge i and centre i of the arc-generalized result are those of
\* the polygon as given, whatever its winding
C2_AsGiven ==
    (UniformCall(METHOD_GENERALIZED) /\ ProperPolygon(PassedPolygon)) =>
        IsArcOffsetOf(result, PassedPolygon, ResolvedDistance)

\* C2: arc-generalized expansion of a polygon with n vertices listed
\* counter-clockwise (positive shoelace sum) by d > 0 returns n edges, n centres
\* and radius d; edge i is edge i moved out by d along its normal, centre i is
\* vertex i.  For a polygon listed clockwise this holds of the reversed list.
C2_ArcGeneralized ==
    (UniformCall(METHOD_GENERALIZED) /\ ProperPolygon(PassedPolygon)) =>
        IsArcOffsetOf(result,
                      IF SignedArea(PassedPolygon) > 0 THEN PassedPolygon
                      ELSE Reverse(PassedPolygon),
                      ResolvedDistance)

\* the 100x100 square at (0, 0) with d = 10: centres (0,0), (100,0), (100,100),
\* (0,100), radius 10, the first edge 10 above the top side
C2_Witness ==
    /\ UniformCall(METHOD_GENERALIZED) /\ UnrotatedRectangle
    /\ obstacle.x = 0 /\ obstacle.y = 0 /\ obstacle.width = 100 /\ obstacle.height = 100
    /\ ResolvedDistance = 10
    /\ result.centers = << <<0, 0>>, <<1000, 0>>, <<1000, 1000>>, <<0, 1000>> >>
    /\ result.edges[1] = << <<0, -100>>, <<1000, -100>> >>
    /\ result.radius = 10


\* C6: expand_obstacle returns None when, in uniform mode, the resolved expansion
\* distance is <= 0, and when, in directional mode, all four directional
\* distances are 0, whatever the obstacle's uniform expansion_distance
C6_NoBoundary ==
    Called =>
        /\ (~obstacle.use_directional_expansion /\ ResolvedDistance <= 0) => result = NoneResult
        /\ (obstacle.use_directional_expansion /\ AllDirZero(obstacle.directional_expansion))
                => result = NoneResult

\* the smallest and largest coordinate c of a set of points
Least(S, c) == CHOOSE m \in {p[c] : p \in S} : \A p \in S : m <= p[c]
Most(S, c) == CHOOSE m \in {p[c] : p \in S} : \A p \in S : p[c] <= m
SameExtent(S, T) ==
    /\ Least(S, 1) = Least(T, 1) /\ Most(S, 1) = Most(T, 1)
    /\ Least(S, 2) = Least(T, 2) /\ Most(S, 2) = Most(T, 2)

\* the points the returned boundary is drawn through: the polygon's vertices, or
\* the ends of the straight edges
BoundaryPoints(r) ==
    IF r.kind = "arcs" THEN UNION {{r.edges[i][1], r.edges[i][2]} : i \in 1..Len(r.edges)}
    ELSE SeqSet(r.vertices)

DirectionalRectangleCall == Called /\ TookDirectional /\ UnrotatedRectangle

DirectionalCorners ==
    InflatedCorners(obstacle, obstacle.directional_expansion.west,
                    obstacle.directional_expansion.north,
                    obstacle.directional_expansion.east,
                    obstacle.directional_expansion.south)

\* C7 as stated: whatever the obstacle's method, the directional boundary of an
\* unrotated rectangle reaches exactly as far as each side's own distance
C7_AnyMethod ==
    (DirectionalRectangleCall /\ obstacle.expansion_method \in Methods) =>
        SameExtent(BoundaryPoints(result), DirectionalCorners)

\* the average of the four distances, which the convex method adds at every corner
AverageDistance == RoundDiv(Fx(DirSum(obstacle.directional_expansion)), 4)

\* C7: for an unrotated rectangle in directional mode each side moves out by
\* exactly its own distance under preserve_shape (4 vertices) and for the
\* straight edges of generalized (whose arcs, of radius the largest distance,
\* sit on the moved corners); under convex the 8 vertices reach the average of
\* the four distances further on every side
C7_DirectionalRectangle ==
    DirectionalRectangleCall =>
        CASE obstacle.expansion_method = METHOD_PRESERVE_SHAPE ->
                /\ result.kind = "polygon"
                /\ Len(result.vertices) = 4
                /\ SeqSet(result.vertices) = DirectionalCorners
          [] obstacle.expansion_method = METHOD_GENERALIZED ->
                /\ result.kind = "arcs"
                /\ Len(result.edges) = 4
                /\ BoundaryPoints(result) = DirectionalCorners
                /\ SeqSet(result.centers) = DirectionalCorners
                /\ result.radius = DirMax(obstacle.directional_expansion)
          [] obstacle.expansion_method = METHOD_CONVEX ->
                /\ result.kind = "polygon"
                /\ Len(result.vertices) = 8
                /\ Least(SeqSet(result.vertices), 1) = Least(DirectionalCorners, 1) - AverageDistance
                /\ Most(SeqSet(result.vertices), 1) = Most(DirectionalCorners, 1) + AverageDistance
                /\ Least(SeqSet(result.vertices), 2) = Least(DirectionalCorners, 2) - AverageDistance
                /\ Most(SeqSet(result.vertices), 2) = Most(DirectionalCorners, 2) + AverageDistance
          [] OTHER -> TRUE

\* north = 5 only, preserve_shape: the rectangle extended upward by 5, the other
\* three sides where they were
C7_Witness ==
    /\ DirectionalRectangleCall
    /\ obstacle.expansion_method = METHOD_PRESERVE_SHAPE
    /\ obstacle.directional_expansion = [NoDirections EXCEPT !.north = 5]
    /\ obstacle.x = 0 /\ obstacle.y = 0 /\ obstacle.width = 100 /\ obstacle.height = 100
    /\ result.vertices = << <<0, -50>>, <<1000, -50>>, <<1000, 1000>>, <<0, 1000>> >>


(***************************************************************************)
(* Winding normalisation applied repeatedly to one vertex list.            *)
(***************************************************************************)
MaxGrid == 2
MaxApplications == 3

\* grid points one PolygonEditor grid cell (20 px) apart
GridStep == 20
GridPoints == {<<Fx(GridStep * i), Fx(GridStep * j)>> : i \in 0..MaxGrid, j \in 0..MaxGrid}

\* triangles on the grid in both orders, collinear triples included
GridTriangles ==
    {t \in [1..3 -> GridPoints] : t[1] # t[2] /\ t[2] # t[3] /\ t[1] # t[3]}

WindingInputs ==
    GridTriangles \cup {[i \in 1..Len(Polygons[k]) |-> <<Fx(Polygons[k][i][1]), Fx(Polygons[k][i][2])>>] :
                            k \in PolygonIndex}

InitWinding ==
    /\ vertices0 \in WindingInputs
    /\ vertices = vertices0
    /\ applied = 0
    /\ EngineIdle /\ OverlapIdle /\ PolygonIdle /\ ThreadsIdle /\ CanvasIdle

\* vertices = self._ensure_counter_clockwise(vertices)
EnsureCounterClockwise ==
    /\ applied < MaxApplications
    /\ vertices' = ensure_counter_clockwise(vertices)
    /\ applied' = applied + 1
    /\ UNCHANGED <<obstacle, expanderVars, call, result, vertices0, overlapVars, polygonVars, threads, canvasVars>>

NextWinding == EnsureCounterClockwise

SpecWinding == InitWinding /\ [][NextWinding]_vars

\* C5: on a polygon of non-zero area, one or more applications of
\* _ensure_counter_clockwise all give the result of the first one, and its
\* shoelace sum is positive, whichever way the polygon was listed
C5_NormalizeIdempotent ==
    (applied >= 1 /\ SignedArea(vertices0) # 0) =>
        /\ vertices = ensure_counter_clockwise(vertices0)
        /\ ensure_counter_clockwise(vertices) = vertices
        /\ SignedArea(vertices) > 0

\* a clockwise triangle, normalised twice: reversed once and then left alone
C5_Witness ==
    /\ applied = 2
    /\ SignedArea(vertices0) < 0
    /\ vertices = Reverse(vertices0)


-----------------------------------------------------------------------------
(***************************************************************************)
(* CollisionDetector.  A QPainterPath made by addPolygon of n points has n *)
(* elements and is closed implicitly; the path made by addRect has the 5   *)
(* elements of a rectangle.  intersects() between a rectangle path and a   *)
(* polygon path is, in either order, the polygon path's intersects(QRectF) *)
(* after a test of the two bounding rectangles.  A value used many times   *)
(* is bound by a quantifier over a one-element set, to be computed once.   *)
(***************************************************************************)
COLLISION_BOX_MIN_GAP == 20
\* min_spacing of CollisionDetector(), as Canvas constructs it
min_spacing == 5

\* CollisionDetector.get_obstacle_vertices: rotation is applied whenever it is
\* not 0, about the centre of the width x height box
get_obstacle_vertices(ob) ==
    LET local == LocalVertices(ob)
        center == <<Fx(ob.width) \div 2, Fx(ob.height) \div 2>>
        turned == IF ob.rotation # 0 THEN Rotate(local, center, ob.rotation) ELSE local
    IN  Translate(turned, ob.x, ob.y)

\* the four arc_point of edge i, j = 1..4 of num_samples = 5
ArcSamples(edges, centers, radius, i) ==
    LET center == At(centers, i + 1)
        edge_end == edges[i][2]
        next_edge_start == At(edges, i + 1)[1]
        angle1 == Atan2Deg(edge_end[2] - center[2], edge_end[1] - center[1])
        angle2 == Atan2Deg(next_edge_start[2] - center[2], next_edge_start[1] - center[1])
    IN  [j \in 1..4 |->
            LET angle == angle1 + (j * (angle2 - angle1)) \div 5
            IN  <<center[1] + RoundDiv(Fx(radius) * Cos1000(angle), 1000),
                  center[2] + RoundDiv(Fx(radius) * Sin1000(angle), 1000)>>]

RECURSIVE ArcPolygonFrom(_, _, _, _)
ArcPolygonFrom(edges, centers, radius, i) ==
    IF i > Len(edges) THEN <<>>
    ELSE <<edges[i][1]>> \o ArcSamples(edges, centers, radius, i)
            \o ArcPolygonFrom(edges, centers, radius, i + 1)

\* the raw shape taken for the expanded one
get_expanded_vertices_raw(ob) == get_obstacle_vertices(ob)
\* the polygon get_expanded_vertices makes of what expand_obstacle returned
BoundaryVertices(expanded_data) ==
    CASE expanded_data.kind = "none"  -> <<>>
      [] expanded_data.kind = "error" -> <<>>
      [] expanded_data.kind = "arcs"  ->
            ArcPolygonFrom(expanded_data.edges, expanded_data.centers, expanded_data.radius, 1)
      [] OTHER -> expanded_data.vertices

\* CollisionDetector.get_expanded_vertices; <<>> stands for None
get_expanded_vertices(ob) ==
    LET expansion_dist == GetDistance(ob, 0)
        method == ob.expansion_method
    IN  IF expansion_dist <= 0 THEN <<>>
        ELSE CHOOSE v \in {BoundaryVertices(expanded_data) :
                            expanded_data \in {expand_obstacle(ob, method, "None",
                                                               expansion_dist, FALSE, 0)}} : TRUE

MinCoord(pts, c) ==
    CHOOSE m \in {pts[i][c] : i \in 1..Len(pts)} : \A i \in 1..Len(pts) : m <= pts[i][c]

\* QPolygonF.boundingRect
boundingRect(pts) ==
    [left |-> MinCoord(pts, 1), top |-> MinCoord(pts, 2),
     right |-> MaxCoord(pts, 1), bottom |-> MaxCoord(pts, 2)]

\* the rectangle without the spacing buffer
Adjusted_none(R, spacing) == R
\* rect.adjust(-spacing, -spacing, spacing, spacing)
Adjusted(R, spacing) ==
    [left |-> R.left - Fx(spacing), top |-> R.top - Fx(spacing),
     right |-> R.right + Fx(spacing), bottom |-> R.bottom + Fx(spacing)]

\* the bounding rectangles of the two paths share a point
RectsMeet(R, S) ==
    ~ \/ Max2(R.left, S.left) > Min2(R.right, S.right)
      \/ Max2(R.top, S.top) > Min2(R.bottom, S.bottom)

RectContains(R, pt) ==
    /\ R.left # R.right /\ R.top # R.bottom
    /\ R.left <= pt[1] /\ pt[1] <= R.right
    /\ R.top <= pt[2] /\ pt[2] <= R.bottom

XCode(pt, R) == (IF pt[1] < R.left THEN {"Left"} ELSE {}) \cup (IF pt[1] > R.right THEN {"Right"} ELSE {})
YCode(pt, R) == (IF pt[2] < R.top THEN {"Top"} ELSE {}) \cup (IF pt[2] > R.bottom THEN {"Bottom"} ELSE {})

ClipX(pt, dx, dy, R) ==
    IF pt[1] < R.left THEN <<R.left, pt[2] + MulDiv(dy, R.left - pt[1], dx)>>
    ELSE IF pt[1] > R.right THEN <<R.right, pt[2] - MulDiv(dy, pt[1] - R.right, dx)>>
    ELSE pt

ClipY(pt, dx, dy, R) ==
    IF pt[2] < R.top THEN <<pt[1] + MulDiv(dx, R.top - pt[2], dy), R.top>>
    ELSE IF pt[2] > R.bottom THEN <<pt[1] - MulDiv(dx, pt[2] - R.bottom, dy), R.bottom>>
    ELSE pt

\* a line of the path crosses the rectangle: Cohen-Sutherland clipping; a line
\* with both ends inside does not count
LineCrossesRect(p, q, R) ==
    LET c1 == XCode(p, R) \cup YCode(p, R)
        c2 == XCode(q, R) \cup YCode(q, R)
        dx == q[1] - p[1]
        dy == q[2] - p[2]
    IN  IF c1 \cap c2 # {} THEN FALSE
        ELSE IF c1 \cup c2 = {} THEN FALSE
        ELSE LET a == ClipX(p, dx, dy, R)
                 b == ClipX(q, dx, dy, R)
             IN  IF YCode(a, R) \cap YCode(b, R) # {} THEN FALSE
                 ELSE XCode(ClipY(a, dx, dy, R), R) \cap XCode(ClipY(b, dx, dy, R), R) = {}

\* the path's lines, the closing one included
PathCrossesRect(pts, R) ==
    \E i \in 1..Len(pts) : pts[i] # At(pts, i + 1) /\ LineCrossesRect(pts[i], At(pts, i + 1), R)

\* whether the ray from the point to the left meets line i of the path; the
\* point is given by twice its coordinates
RayMeetsLine(pts, i, twice) ==
    LET p == pts[i]
        q == At(pts, i + 1)
        lo == IF q[2] < p[2] THEN q ELSE p
        hi == IF q[2] < p[2] THEN p ELSE q
    IN  /\ p[2] # q[2]
        /\ twice[2] >= 2 * lo[2] /\ twice[2] < 2 * hi[2]
        /\ 2 * lo[1] * (hi[2] - lo[2]) + (hi[1] - lo[1]) * (twice[2] - 2 * lo[2])
                <= twice[1] * (hi[2] - lo[2])

\* QPainterPath.contains under the odd-even fill rule
PathContains(pts, twice) ==
    LET B == boundingRect(pts)
    IN  /\ B.left # B.right /\ B.top # B.bottom
        /\ 2 * B.left <= twice[1] /\ twice[1] <= 2 * B.right
        /\ 2 * B.top <= twice[2] /\ twice[2] <= 2 * B.bottom
        /\ Cardinality({i \in 1..Len(pts) : RayMeetsLine(pts, i, twice)}) % 2 = 1

\* CollisionDetector._check_polygon_overlap for spacing > 0, the only way it is called
check_polygon_overlap(vertices1, vertices2, spacing) ==
    \E rect1 \in {Adjusted(boundingRect(vertices1), spacing)} :
        /\ RectsMeet(rect1, boundingRect(vertices2))
        /\ \/ PathCrossesRect(vertices2, rect1)
           \/ PathContains(vertices2, <<rect1.left + rect1.right, rect1.top + rect1.bottom>>)
           \/ RectContains(rect1, vertices2[1])

\* exclusion by equal contents: existing == exclude
IsExcluded_by_value(existing, excl) == excl.id # 0 /\ [existing EXCEPT !.id = excl.id] = excl
\* "exclude and existing is exclude": the id stands for the identity of the dict,
\* id 0 for None
IsExcluded(existing, excl) == excl.id # 0 /\ existing.id = excl.id

\* the three checks of one pass of the loop of check_overlap
ChecksFail(ob, existing) ==
    \E vertices1_original \in {get_obstacle_vertices(ob)},
       vertices2_original \in {get_obstacle_vertices(existing)},
       expansion1 \in {GetDistance(ob, 0)},
       expansion2 \in {GetDistance(existing, 0)},
       vertices1_expanded \in {get_expanded_vertices(ob)},
       vertices2_expanded \in {get_expanded_vertices(existing)} :
        \/ check_polygon_overlap(vertices1_original, vertices2_original, min_spacing)
        \/ /\ expansion1 > 0 /\ expansion2 > 0
           /\ vertices1_expanded # <<>> /\ vertices2_expanded # <<>>
           /\ check_polygon_overlap(vertices1_expanded, vertices2_expanded, COLLISION_BOX_MIN_GAP)
        \/ /\ expansion1 > 0
           /\ vertices1_expanded # <<>>
           /\ check_polygon_overlap(vertices1_expanded, vertices2_original, min_spacing)
        \/ /\ expansion2 > 0
           /\ vertices2_expanded # <<>>
           /\ check_polygon_overlap(vertices1_original, vertices2_expanded, min_spacing)

RECURSIVE CheckOverlapFrom(_, _, _, _)
CheckOverlapFrom(ob, list, excl, i) ==
    IF i > Len(list) THEN FALSE
    ELSE IF IsExcluded(list[i], excl) THEN CheckOverlapFrom(ob, list, excl, i + 1)
    ELSE IF ChecksFail(ob, list[i]) THEN TRUE
    ELSE CheckOverlapFrom(ob, list, excl, i + 1)

\* CollisionDetector.check_overlap
check_overlap(ob, list, excl) == CheckOverlapFrom(ob, list, excl, 1)


-----------------------------------------------------------------------------
(***************************************************************************)
(* check_overlap called on a candidate, a list of placed obstacles and an  *)
(* excluded obstacle.                                                      *)
(***************************************************************************)
MaxOverlapSizes == 2
MaxGaps == 5

OverlapSizes == << <<50, 50>>, <<60, 40>>, <<80, 80>> >>
\* the distance in pixels between the facing sides
Gaps == <<3, 6, 15, 39, 41, 5, 40>>
Shifts == {0, 20}
Sides == {"east", "west", "south", "north"}
\* the placed obstacles are squares of the first size
NeighbourSize == OverlapSizes[1][1]
\* the distance, along both axes, of the diagonal neighbour
DiagonalGap == 12

\* the candidate: id 1
Candidates ==
    {[Obstacle(1, "rectangle", 0, 0, OverlapSizes[s][1], OverlapSizes[s][2], <<>>)
        EXCEPT !.expansion_distance = d, !.expansion_method = m] :
        s \in 1..Min2(MaxOverlapSizes, Len(OverlapSizes)), d \in Distances, m \in Methods}

\* a placed 50 x 50 square whose nearest side is g away from side `side` of a
Neighbour(a, side, g, shift) ==
    CASE side = "east"  -> Obstacle(2, "rectangle", a.x + a.width + g, a.y + shift,
                                    NeighbourSize, NeighbourSize, <<>>)
      [] side = "west"  -> Obstacle(2, "rectangle", a.x - NeighbourSize - g, a.y + shift,
                                    NeighbourSize, NeighbourSize, <<>>)
      [] side = "south" -> Obstacle(2, "rectangle", a.x + shift, a.y + a.height + g,
                                    NeighbourSize, NeighbourSize, <<>>)
      [] side = "north" -> Obstacle(2, "rectangle", a.x + shift, a.y - NeighbourSize - g,
                                    NeighbourSize, NeighbourSize, <<>>)

Neighbours(a) ==
    {[Neighbour(a, side, Gaps[g], shift) EXCEPT !.expansion_distance = d, !.expansion_method = m] :
        side \in Sides, g \in 1..Min2(MaxGaps, Len(Gaps)), shift \in Shifts,
        d \in Distances, m \in {METHOD_GENERALIZED, METHOD_CONVEX}}
    \cup
    \* an expanded neighbour whose boundary cannot be computed
    {[Neighbour(a, "east", Gaps[g], 0) EXCEPT !.expansion_distance = 10,
                                              !.expansion_method = UnknownMethod] :
        g \in 1..Min2(MaxGaps, Len(Gaps))}
    \cup
    \* a square placed diagonally off the south-east corner
    {Obstacle(2, "rectangle", a.x + a.width + DiagonalGap, a.y + a.height + DiagonalGap,
              NeighbourSize, NeighbourSize, <<>>)}

\* a second dict with the same contents
Copy(b) == [b EXCEPT !.id = 3]
Far(a) == Obstacle(4, "rectangle", a.x + 10 * NeighbourSize, a.y, NeighbourSize, NeighbourSize, <<>>)

\* obstacles_list and exclude
Scenes(a, b) ==
    {   << <<>>, NoObstacle >>, << <<>>, b >>,
        << <<b>>, NoObstacle >>, << <<b>>, b >>, << <<b>>, Copy(b) >>,
        << <<a, b>>, a >>, << <<a, b>>, NoObstacle >>,
        << <<b, Copy(b)>>, b >>, << <<b, Copy(b)>>, NoObstacle >>,
        << <<Far(a), b>>, NoObstacle >>, << <<Far(a), b>>, b >>, << <<b, Far(a)>>, Far(a) >> }

InitOverlap ==
    /\ obstacle \in Candidates
    /\ \E b \in Neighbours(obstacle) : \E sc \in Scenes(obstacle, b) :
            obstacles_list = sc[1] /\ exclude = sc[2]
    /\ overlap = FALSE
    /\ call = NoCall
    /\ d_exp = 0
    /\ force_convex_hull = FALSE
    /\ result = NoneResult
    /\ WindingIdle /\ PolygonIdle /\ ThreadsIdle /\ CanvasIdle

\* collision_detector.check_overlap(obstacle, obstacles_list, exclude)
CheckOverlap ==
    /\ call.op = "none"
    /\ overlap' = check_overlap(obstacle, obstacles_list, exclude)
    /\ call' = [NoCall EXCEPT !.op = "check_overlap"]
    /\ UNCHANGED <<obstacle, expanderVars, result, windingVars, obstacles_list, exclude,
                   polygonVars, threads, canvasVars>>

NextOverlap == CheckOverlap

SpecOverlap == InitOverlap /\ [][NextOverlap]_vars

-----------------------------------------------------------------------------
(* Claims about check_overlap *)

Checked == call.op = "check_overlap"

\* the candidate checked against one placed obstacle, nothing excluded
OnePlaced == Checked /\ Len(obstacles_list) = 1 /\ exclude.id = 0

Unrotated(ob) == ob.type = "rectangle" /\ ob.rotation = 0

\* the sides of a and b that face each other across an axis-aligned gap
FacingX(a, b) == a.y < b.y + b.height /\ b.y < a.y + a.height
FacingY(a, b) == a.x < b.x + b.width /\ b.x < a.x + a.width
GapX(a, b) == Max2(b.x - (a.x + a.width), a.x - (b.x + b.width))
GapY(a, b) == Max2(b.y - (a.y + a.height), a.y - (b.y + b.height))
Facing(a, b) == (FacingX(a, b) /\ GapX(a, b) >= 0) \/ (FacingY(a, b) /\ GapY(a, b) >= 0)
GapBetween(a, b) == IF FacingX(a, b) THEN GapX(a, b) ELSE GapY(a, b)

\* C3: two unrotated rectangles without expansion that face each other across a
\* gap g: check_overlap is true when g < 5 and false when g > 5
C3_BaselineBuffer ==
    (/\ OnePlaced
     /\ Unrotated(obstacle) /\ Unrotated(obstacles_list[1])
     /\ GetDistance(obstacle, 0) = 0 /\ GetDistance(obstacles_list[1], 0) = 0
     /\ Facing(obstacle, obstacles_list[1])) =>
        /\ GapBetween(obstacle, obstacles_list[1]) < min_spacing => overlap
        /\ GapBetween(obstacle, obstacles_list[1]) > min_spacing => ~overlap

\* 50 x 50 squares 6 apart: no overlap
C3_Witness ==
    /\ OnePlaced
    /\ obstacle.width = 50 /\ obstacle.height = 50
    /\ GetDistance(obstacle, 0) = 0 /\ GetDistance(obstacles_list[1], 0) = 0
    /\ obstacles_list[1].x = 56 /\ obstacles_list[1].y = 0
    /\ ~overlap

Square(ob) == Unrotated(ob) /\ ob.width = ob.height

\* C4: two unrotated squares, both expanded by d > 0 with the generalized method,
\* raw sides g apart with g - 2d < 20: check_overlap is true
C4_MandatoryGap ==
    (/\ OnePlaced
     /\ Square(obstacle) /\ Square(obstacles_list[1])
     /\ obstacle.expansion_method = METHOD_GENERALIZED
     /\ obstacles_list[1].expansion_method = METHOD_GENERALIZED
     /\ GetDistance(obstacle, 0) > 0
     /\ GetDistance(obstacles_list[1], 0) = GetDistance(obstacle, 0)
     /\ Facing(obstacle, obstacles_list[1])
     /\ GapBetween(obstacle, obstacles_list[1]) - 2 * GetDistance(obstacle, 0)
            < COLLISION_BOX_MIN_GAP) => overlap

\* d = 10, g = 15
C4_Witness ==
    /\ OnePlaced
    /\ Square(obstacle) /\ Square(obstacles_list[1])
    /\ obstacle.expansion_method = METHOD_GENERALIZED
    /\ obstacles_list[1].expansion_method = METHOD_GENERALIZED
    /\ GetDistance(obstacle, 0) = 10 /\ GetDistance(obstacles_list[1], 0) = 10
    /\ GapX(obstacle, obstacles_list[1]) = 15 /\ FacingX(obstacle, obstacles_list[1])
    /\ overlap

\* C8: check_overlap is true exactly when some element of the list that is not
\* the excluded object itself fails one of the checks; false for an empty list;
\* an element with the contents of the excluded object but another identity is
\* still tested
C8_ExcludeByIdentity ==
    Checked =>
        /\ overlap = (\E i \in 1..Len(obstacles_list) :
                        /\ ~(exclude.id # 0 /\ obstacles_list[i].id = exclude.id)
                        /\ ChecksFail(obstacle, obstacles_list[i]))
        /\ obstacles_list = <<>> => ~overlap

\* the excluded obstacle is skipped, its copy is tested and fails
C8_Witness ==
    /\ Checked
    /\ Len(obstacles_list) = 2
    /\ exclude = obstacles_list[1]
    /\ obstacles_list[2] = Copy(exclude)
    /\ overlap


-----------------------------------------------------------------------------
(***************************************************************************)
(* The segment tests of CollisionDetector on a list of authored points.    *)
(***************************************************************************)

\* orientation(p, q, r) of segments_intersect
orientation(p, q, r) ==
    LET val == (q[2] - p[2]) * (r[1] - q[1]) - (q[1] - p[1]) * (r[2] - p[2])
    IN  IF val = 0 THEN 0 ELSE IF val > 0 THEN 1 ELSE 2

\* on_segment(p, q, r) of segments_intersect
on_segment(p, q, r) ==
    /\ q[1] <= Max2(p[1], r[1]) /\ q[1] >= Min2(p[1], r[1])
    /\ q[2] <= Max2(p[2], r[2]) /\ q[2] >= Min2(p[2], r[2])

\* CollisionDetector.segments_intersect
segments_intersect(p1, p2, p3, p4) ==
    LET o1 == orientation(p1, p2, p3)
        o2 == orientation(p1, p2, p4)
        o3 == orientation(p3, p4, p1)
        o4 == orientation(p3, p4, p2)
    IN  \/ o1 # o2 /\ o3 # o4
        \/ o1 = 0 /\ on_segment(p1, p3, p2)
        \/ o2 = 0 /\ on_segment(p1, p4, p2)
        \/ o3 = 0 /\ on_segment(p3, p1, p4)
        \/ o4 = 0 /\ on_segment(p3, p2, p4)

\* points[k] of the source, k counted from 0 and taken modulo n
Pt(pts, k) == pts[(k % Len(pts)) + 1]

\* crossing_indices as the two loops fill it, from (i, j) on
RECURSIVE CrossingIndicesFrom(_, _, _)
CrossingIndicesFrom(pts, i, j) ==
    LET n == Len(pts)
    IN  IF i >= n THEN <<>>
        ELSE IF j >= n THEN CrossingIndicesFrom(pts, i + 1, i + 3)
        ELSE IF j = n - 1 /\ i = 0 THEN CrossingIndicesFrom(pts, i, j + 1)
        ELSE (IF segments_intersect(Pt(pts, i), Pt(pts, i + 1), Pt(pts, j), Pt(pts, j + 1))
              THEN << <<i, j>> >> ELSE <<>>)
             \o CrossingIndicesFrom(pts, i, j + 1)

\* CollisionDetector.check_polygon_self_intersection
check_polygon_self_intersection(pts) ==
    IF Len(pts) < 3 THEN [crossing |-> FALSE, pairs |-> <<>>]
    ELSE LET crossing_indices == CrossingIndicesFrom(pts, 0, 2)
         IN  [crossing |-> Len(crossing_indices) > 0, pairs |-> crossing_indices]

\* CollisionDetector.check_new_edge_intersection
check_new_edge_intersection(existing_points, np) ==
    IF Len(existing_points) < 2 THEN FALSE
    ELSE LET n == Len(existing_points)
             last_point == existing_points[n]
             first_point == existing_points[1]
         IN  \/ \E i \in 0..(n - 2) :
                    segments_intersect(last_point, np,
                                       Pt(existing_points, i), Pt(existing_points, i + 1))
             \/ \E i \in 1..(n - 2) :
                    segments_intersect(np, first_point,
                                       Pt(existing_points, i), Pt(existing_points, i + 1))

MaxPoints == 4

\* the grid the points are snapped to, two rows of it
EditorGrid == {<<Fx(GridStep * i), Fx(GridStep * j)>> : i \in 0..MaxGrid, j \in 0..1}

\* lists of distinct grid points
PointLists ==
    UNION {{s \in [1..n -> EditorGrid] : \A i, j \in 1..n : i # j => s[i] # s[j]} : n \in 0..MaxPoints}

InitPolygon ==
    /\ points \in PointLists
    /\ new_point = <<0, 0>>
    /\ verdict = NoVerdict
    /\ segments = <<>>
    /\ EngineIdle /\ WindingIdle /\ OverlapIdle /\ ThreadsIdle /\ CanvasIdle

\* detector.check_polygon_self_intersection(points)
CheckSelfIntersection ==
    /\ call.op = "none"
    /\ verdict' = check_polygon_self_intersection(points)
    /\ call' = [NoCall EXCEPT !.op = "check_polygon_self_intersection"]
    /\ UNCHANGED <<obstacle, expanderVars, result, windingVars, overlapVars,
                   points, new_point, segments, threads, canvasVars>>

\* detector.check_new_edge_intersection(points, np)
CheckNewEdge(np) ==
    /\ call.op = "none"
    /\ new_point' = np
    /\ verdict' = [crossing |-> check_new_edge_intersection(points, np), pairs |-> <<>>]
    /\ call' = [NoCall EXCEPT !.op = "check_new_edge_intersection"]
    /\ UNCHANGED <<obstacle, expanderVars, result, windingVars, overlapVars,
                   points, segments, threads, canvasVars>>

\* detector.segments_intersect(p1, p2, p3, p4), on the square grid
CheckSegments(p1, p2, p3, p4) ==
    /\ call.op = "none"
    /\ points = <<>>
    /\ segments' = <<p1, p2, p3, p4>>
    /\ verdict' = [crossing |-> segments_intersect(p1, p2, p3, p4), pairs |-> <<>>]
    /\ call' = [NoCall EXCEPT !.op = "segments_intersect"]
    /\ UNCHANGED <<obstacle, expanderVars, result, windingVars, overlapVars,
                   points, new_point, threads, canvasVars>>

NextPolygon ==
    \/ CheckSelfIntersection
    \/ \E np \in EditorGrid : CheckNewEdge(np)
    \/ \E p1, p2, p3, p4 \in GridPoints : CheckSegments(p1, p2, p3, p4)

SpecPolygon == InitPolygon /\ [][NextPolygon]_vars

-----------------------------------------------------------------------------
(* Claims about the segment tests *)

Sign(x) == IF x > 0 THEN 1 ELSE IF x < 0 THEN -1 ELSE 0

\* the segments ab and cd cross at a point inside both
CrossProperly(a, b, c, d) ==
    /\ Sign(Cross(a, b, c)) * Sign(Cross(a, b, d)) < 0
    /\ Sign(Cross(c, d, a)) * Sign(Cross(c, d, b)) < 0

\* the segments ab and cd have a point in common
Meet(a, b, c, d) ==
    \/ CrossProperly(a, b, c, d)
    \/ OnSegment(a, c, b) \/ OnSegment(a, d, b)
    \/ OnSegment(c, a, d) \/ OnSegment(c, b, d)

\* edges i < j of the closed polygon, counted from 0, that share no vertex
NonAdjacent(pts, i, j) ==
    /\ 0 <= i /\ j <= Len(pts) - 1 /\ j >= i + 2
    /\ ~(i = 0 /\ j = Len(pts) - 1)

SelfChecked == call.op = "check_polygon_self_intersection"

\* C9: check_polygon_self_intersection reports a non-empty list whenever two
\* non-adjacent edges cross; every reported (i, j) is a pair of non-adjacent
\* edges with a common point; the boolean is true exactly when the list is not
\* empty; fewer than 3 points give (false, [])
C9_SelfIntersection ==
    SelfChecked =>
        /\ Len(points) < 3 => verdict = [crossing |-> FALSE, pairs |-> <<>>]
        /\ verdict.crossing <=> verdict.pairs # <<>>
        /\ \A k \in 1..Len(verdict.pairs) :
                LET i == verdict.pairs[k][1]
                    j == verdict.pairs[k][2]
                IN  /\ NonAdjacent(points, i, j)
                    /\ Meet(Pt(points, i), Pt(points, i + 1), Pt(points, j), Pt(points, j + 1))
        /\ (\E i, j \in 0..(Len(points) - 1) :
                /\ NonAdjacent(points, i, j)
                /\ CrossProperly(Pt(points, i), Pt(points, i + 1),
                                 Pt(points, j), Pt(points, j + 1)))
            => (verdict.crossing /\ verdict.pairs # <<>>)

NewEdgeChecked == call.op = "check_new_edge_intersection"

\* the placed edges, counted from 0, that share no endpoint with the edge from
\* the last point to the new one, and with the closing edge from the new point
\* to the first one
AwayFromNewEdge(pts) == 0..(Len(pts) - 3)
AwayFromClosingEdge(pts) == 1..(Len(pts) - 2)

\* C10: check_new_edge_intersection is true when the new edge, or the closing
\* edge once there are 2 points, crosses a placed edge not adjacent to it, and
\* false when neither has a point in common with such an edge (the new point
\* being none of the placed ones)
C10_NewEdge ==
    (NewEdgeChecked /\ Len(points) >= 1 /\ new_point \notin SeqSet(points)) =>
        LET last_point == points[Len(points)]
            first_point == points[1]
        IN  /\ (\/ \E i \in AwayFromNewEdge(points) :
                        CrossProperly(last_point, new_point, Pt(points, i), Pt(points, i + 1))
                \/ \E i \in AwayFromClosingEdge(points) :
                        CrossProperly(new_point, first_point, Pt(points, i), Pt(points, i + 1)))
                => verdict.crossing
            /\ (/\ \A i \in AwayFromNewEdge(points) :
                        ~Meet(last_point, new_point, Pt(points, i), Pt(points, i + 1))
                /\ \A i \in AwayFromClosingEdge(points) :
                        ~Meet(new_point, first_point, Pt(points, i), Pt(points, i + 1)))
                => ~verdict.crossing

SegmentsChecked == call.op = "segments_intersect"

\* the value orientation should return for the turn p, q, r: 0 on a line,
\* 1 for a clockwise turn, 2 for a counter-clockwise one
TurnOf(p, q, r) ==
    IF Cross(p, q, r) = 0 THEN 0 ELSE IF Cross(p, q, r) < 0 THEN 1 ELSE 2

\* C11: segments_intersect is true exactly when the two closed segments have
\* a point in common, and orientation agrees with the sign of the cross
\* product (q - p) x (r - q) for every triple of the end points
C11_SegmentsIntersect ==
    SegmentsChecked =>
        /\ verdict.crossing <=> Meet(segments[1], segments[2], segments[3], segments[4])
        /\ \A p, q, r \in SeqSet(segments) : orientation(p, q, r) = TurnOf(p, q, r)

-----------------------------------------------------------------------------
(* expand_obstacle step by step: the expander's d_exp is shared by every call
   in progress, the rest of a call's state is local to its thread *)

\* bound on the calls one thread makes
MaxCalls == 2
\* bound on the threads that share the expander
MaxThreads == 2

\* the distance Canvas constructs its expander with
ConstructedDistance == 0

CallDistances == {0, 10, 20}

\* the obstacles of the stepped calls: one of each kind, every setting
CallSettings(ob) ==
    {[ob EXCEPT !.expansion_distance = d[2], !.expansion_method = m,
                !.force_convex_hull = f[2],
                !.keys = (IF d[1] THEN {"expansion_distance"} ELSE {})
                         \cup (IF f[1] THEN {"force_convex_hull"} ELSE {})] :
        d \in {<<TRUE, k>> : k \in CallDistances} \cup {<<FALSE, 0>>},
        m \in Methods \cup {UnknownMethod},
        f \in {<<FALSE, FALSE>>, <<TRUE, FALSE>>, <<TRUE, TRUE>>}}

CallShapes ==
    {Obstacle(1, "rectangle", Places[1][1], Places[1][2], Sizes[1][1], Sizes[1][2], <<>>),
     Obstacle(1, "triangle", Places[1][1], Places[1][2], Sizes[2][1], Sizes[2][2], <<>>),
     Obstacle(1, "custom_polygon", Places[2][1], Places[2][2],
              MaxCoord(Polygons[1], 1), MaxCoord(Polygons[1], 2), Polygons[1])}

CallObstacles ==
    UNION {CallSettings(ob) : ob \in CallShapes}
    \cup UNION {{[ob EXCEPT !.expansion_distance = d, !.expansion_method = m,
                            !.use_directional_expansion = TRUE,
                            !.directional_expansion = [NoDirections EXCEPT !.north = 5]] :
                    d \in Distances, m \in {METHOD_GENERALIZED, UnknownMethod}} :
                ob \in CallShapes}

\* the obstacles two threads expand at once: one rectangle, each distance
ThreadObstacles ==
    {[Obstacle(1, "rectangle", Places[1][1], Places[1][2], Sizes[1][1], Sizes[1][2], <<>>)
        EXCEPT !.expansion_distance = d, !.expansion_method = METHOD_PRESERVE_SHAPE] :
        d \in CallDistances}

\* the expander's fields and an obstacle's, as a call finds them
Before(ob) == [d_exp |-> d_exp, force_convex_hull |-> force_convex_hull, obstacle |-> ob]

\* a thread that has called nothing yet and will call `calls` times; start:
\* where ConvexHull begins its vertex list for this obstacle
Thread(ob, start, calls) ==
    [pc |-> "idle", obstacle |-> ob, start |-> start, calls |-> calls, method |-> "None",
     force_convex_hull |-> "None", expansion_dist |-> 0, old_distance |-> 0,
     result |-> NoneResult,
     before |-> [d_exp |-> 0, force_convex_hull |-> FALSE, obstacle |-> ob],
     returned |-> <<>>]

HullStarts(ob) ==
    IF HasKey(ob, "force_convex_hull") /\ ~ob.force_convex_hull THEN {0} ELSE 0..MaxHullStart

\* the call returns, or raises, r
Return(th, r) == [th EXCEPT !.pc = "idle", !.returned = Append(@, r)]

\* lines 96-117: the directional dispatch, the distance and the early return;
\* a repeated call passes the arguments of the first
Enter(t, method, fcharg) ==
    LET ob == threads[t].obstacle
        th == [threads[t] EXCEPT !.method = method, !.force_convex_hull = fcharg,
                                 !.before = Before(ob)]
        directional == ob.use_directional_expansion /\ AnyDirPositive(ob.directional_expansion)
        expansion_dist == GetDistance(ob, d_exp)
    IN  /\ threads[t].pc = "idle"
        /\ Len(threads[t].returned) < threads[t].calls
        /\ \/ threads[t].returned = <<>>
           \/ method = threads[t].method /\ fcharg = threads[t].force_convex_hull
        /\ threads' = [threads EXCEPT ![t] =
                IF directional /\ ob.type = "rectangle"
                THEN Return(th, expand_rectangle_directional(ob))
                ELSE IF directional /\ ob.type \in {"triangle", "pentagon", "hexagon"}
                THEN Return(th, expand_polygon_directional(ob))
                ELSE IF expansion_dist <= 0 THEN Return(th, NoneResult)
                ELSE [th EXCEPT !.pc = "save", !.expansion_dist = expansion_dist]]
        /\ UNCHANGED <<obstacle, expanderVars, call, result, windingVars, overlapVars, polygonVars, canvasVars>>

\* line 120: old_distance = self.d_exp
SaveDistance(t) ==
    /\ threads[t].pc = "save"
    /\ threads' = [threads EXCEPT ![t].pc = "set", ![t].old_distance = d_exp]
    /\ UNCHANGED <<obstacle, expanderVars, call, result, windingVars, overlapVars, polygonVars, canvasVars>>

\* line 121: self.d_exp = expansion_dist
SetDistance(t) ==
    /\ threads[t].pc = "set"
    /\ d_exp' = threads[t].expansion_dist
    /\ threads' = [threads EXCEPT ![t].pc = "expand"]
    /\ UNCHANGED <<obstacle, force_convex_hull, call, result, windingVars, overlapVars, polygonVars, canvasVars>>

\* lines 123-155: the body of the try; the expansion routines read self.d_exp
Expand(t) ==
    LET th == threads[t]
        ob == th.obstacle
    IN  /\ th.pc = "expand"
        /\ threads' = [threads EXCEPT ![t].pc = "restore", ![t].result =
                ExpandUniform(ob,
                              IF th.method = "None" THEN ob.expansion_method ELSE th.method,
                              ResolveConvexHull(ob, th.force_convex_hull, force_convex_hull),
                              d_exp, th.start)]
        /\ UNCHANGED <<obstacle, expanderVars, call, result, windingVars, overlapVars, polygonVars, canvasVars>>

\* a finally clause that restores nothing
Restore_nothing(t) ==
    /\ threads[t].pc = "restore"
    /\ threads' = [threads EXCEPT ![t] = Return(@, @.result)]
    /\ UNCHANGED <<obstacle, expanderVars, call, result, windingVars, overlapVars, polygonVars, canvasVars>>

\* lines 156-160: the finally clause, then the return or the raise
Restore(t) ==
    /\ threads[t].pc = "restore"
    /\ d_exp' = threads[t].old_distance
    /\ threads' = [threads EXCEPT ![t] = Return(@, @.result)]
    /\ UNCHANGED <<obstacle, force_convex_hull, call, result, windingVars, overlapVars, polygonVars, canvasVars>>

NextThreads ==
    \E t \in DOMAIN threads :
        \/ \E method \in Methods \cup {"None"}, fcharg \in {"None", "True", "False"} :
                Enter(t, method, fcharg)
        \/ SaveDistance(t)
        \/ SetDistance(t)
        \/ Expand(t)
        \/ Restore(t)

\* one caller
InitCall ==
    /\ d_exp \in Distances
    /\ force_convex_hull \in BOOLEAN
    /\ threads \in UNION {[{1} -> {Thread(ob, start, MaxCalls) : start \in HullStarts(ob)}] :
                            ob \in CallObstacles}
    /\ obstacle = NoObstacle /\ call = NoCall /\ result = NoneResult
    /\ WindingIdle /\ OverlapIdle /\ PolygonIdle /\ CanvasIdle

SpecCall == InitCall /\ [][NextThreads]_vars

\* several callers on the expander Canvas constructs, one call each
InitThreads ==
    /\ d_exp = ConstructedDistance
    /\ force_convex_hull = FALSE
    /\ threads \in [1..MaxThreads -> {Thread(ob, 0, 1) : ob \in ThreadObstacles}]
    /\ obstacle = NoObstacle /\ call = NoCall /\ result = NoneResult
    /\ WindingIdle /\ OverlapIdle /\ PolygonIdle /\ CanvasIdle

SpecThreads == InitThreads /\ [][NextThreads]_vars

-----------------------------------------------------------------------------
(* Claims about the calls of expand_obstacle in progress *)

\* what the call of thread th returns when no other call is in progress
Alone(th) ==
    expand_obstacle(th.obstacle, th.method, th.force_convex_hull,
                    ConstructedDistance, FALSE, th.start)

AllReturned == \A t \in DOMAIN threads : threads[t].pc = "idle" /\ threads[t].returned # <<>>

\* C12: concurrent calls of expand_obstacle on one expander each return the
\* boundary computed with their own obstacle's distance, and once all have
\* returned d_exp has the value it had before any of them started
C12_ConcurrentCalls ==
    /\ \A t \in DOMAIN threads : \A k \in 1..Len(threads[t].returned) :
            threads[t].returned[k] = Alone(threads[t])
    /\ AllReturned => d_exp = ConstructedDistance

\* thread t has made a call and is in none
Back(t) == threads[t].pc = "idle" /\ threads[t].returned # <<>>

\* C13: once a call of expand_obstacle has returned or raised, d_exp,
\* force_convex_hull and every field of the obstacle are what they were before
\* the call, and the call repeated on the same obstacle gives the same result
C13_OnlyTheResult ==
    \A t \in DOMAIN threads :
        Back(t) =>
            /\ d_exp = threads[t].before.d_exp
            /\ force_convex_hull = threads[t].before.force_convex_hull
            /\ threads[t].obstacle = threads[t].before.obstacle
            /\ \A k \in 1..Len(threads[t].returned) :
                    threads[t].returned[k] = threads[t].returned[1]

\* a call that changed d_exp on its way has been made twice
C13_Witness ==
    \E t \in DOMAIN threads :
        /\ Back(t)
        /\ Len(threads[t].returned) = MaxCalls
        /\ threads[t].returned[1].kind \in {"polygon", "arcs", "error"}
        /\ threads[t].expansion_dist > 0
        /\ threads[t].expansion_dist # threads[t].before.d_exp

-----------------------------------------------------------------------------
(* Claims about what expand_obstacle does with its arguments *)

\* the call expands by a positive amount, uniformly or by direction
PositiveExpansion ==
    \/ TookDirectional
    \/ ~obstacle.use_directional_expansion /\ ResolvedDistance > 0

\* C14: with a positive expansion and a resolved method that is none of
\* preserve_shape, convex and generalized, expand_obstacle raises instead of
\* returning a boundary, in uniform and in directional mode
C14_UnknownMethodRaises ==
    (Called /\ PositiveExpansion /\ ResolvedMethod \notin Methods) => result = ErrorResult

\* C15: for an obstacle whose kind is none of rectangle, triangle, pentagon,
\* hexagon and custom-polygon the vertex extraction fails: it yields no vertex
\* sequence, in the engine and in the detector, and a uniform expansion by a
\* positive distance ends in the error
C15_UnknownKindFails ==
    (Called /\ obstacle.type \notin Kinds) =>
        /\ obstacle_to_vertices(obstacle) = <<>>
        /\ get_obstacle_vertices(obstacle) = <<>>
        /\ (~obstacle.use_directional_expansion /\ ResolvedDistance > 0) => result = ErrorResult

\* directional offsetting is requested: the flag is set and some side is positive
DirectionalRequested ==
    obstacle.use_directional_expansion /\ AnyDirPositive(obstacle.directional_expansion)

\* C16: directional offsetting requested for a custom polygon makes
\* expand_obstacle raise; it returns neither a uniform boundary nor None
C16_CustomPolygonDirectional ==
    (Called /\ obstacle.type = "custom_polygon" /\ DirectionalRequested) => result = ErrorResult

\* the call returned a boundary
ReturnedBoundary == result.kind \in {"polygon", "arcs"}

\* C17: with an explicit method argument the returned representation follows
\* the argument, arcs for generalized and a polygon for preserve_shape and
\* convex, whatever the obstacle's own expansion_method, in uniform and in
\* directional mode
C17_MethodArgument ==
    (Called /\ call.method \in Methods /\ ReturnedBoundary) =>
        (result.kind = "arcs" <=> call.method = METHOD_GENERALIZED)

\* C18: in a uniform expansion an explicit force_convex_hull argument decides
\* whether the convex hull replaces the shape before offsetting, whatever the
\* obstacle's own force_convex_hull says
C18_HullArgument ==
    (/\ Called /\ ~TookDirectional /\ ResolvedDistance > 0
     /\ ResolvedMethod \in Methods
     /\ call.force_convex_hull \in {"True", "False"}) =>
        \E start \in 0..MaxHullStart :
            result = ExpandUniform(obstacle, ResolvedMethod, call.force_convex_hull = "True",
                                   ResolvedDistance, start)

-----------------------------------------------------------------------------
(* Claims about the checks check_overlap applies *)

\* the raw-shape test and the expanded-box test on one pair
RawTest(ob, existing) ==
    check_polygon_overlap(get_obstacle_vertices(ob), get_obstacle_vertices(existing), min_spacing)

BoxTest(ob, existing) ==
    \E vertices1_expanded \in {get_expanded_vertices(ob)},
       vertices2_expanded \in {get_expanded_vertices(existing)} :
        /\ vertices1_expanded # <<>> /\ vertices2_expanded # <<>>
        /\ check_polygon_overlap(vertices1_expanded, vertices2_expanded, COLLISION_BOX_MIN_GAP)

\* C19: for a pair in which both obstacles have a positive expansion distance
\* the mixed test is not applied: the verdict is that of the raw-shape test
\* and the expanded-box test alone
C19_MixedTestOnlyForOne ==
    (/\ OnePlaced
     /\ GetDistance(obstacle, 0) > 0 /\ GetDistance(obstacles_list[1], 0) > 0) =>
        (overlap <=> (\/ RawTest(obstacle, obstacles_list[1])
                      \/ BoxTest(obstacle, obstacles_list[1])))

-----------------------------------------------------------------------------
(* Claims about degenerate vertex sequences *)

\* C20: a vertex sequence whose shoelace sum is zero comes out of
\* _ensure_counter_clockwise in the order it was given
C20_ZeroAreaUnchanged ==
    (applied = 1 /\ SignedArea(vertices0) = 0) => vertices = vertices0

-----------------------------------------------------------------------------
(* Claims about rotation in the two vertex extractions *)

\* the local vertices moved to (x, y) and not turned
Unturned(ob) == Translate(LocalVertices(ob), ob.x, ob.y)

\* C21: for an obstacle that cannot rotate the extracted world vertices are
\* the local points translated by (x, y) whatever the rotation value, in the
\* engine's extraction and in the detector's
C21_RotationNeedsCanRotate ==
    (Called /\ ~obstacle.can_rotate) =>
        /\ obstacle_to_vertices(obstacle) = Unturned(obstacle)
        /\ get_obstacle_vertices(obstacle) = Unturned(obstacle)

-----------------------------------------------------------------------------
(* Claims about the winding of the caller's points *)

\* what a result consists of, without the order of its lists
ResultSet(r) ==
    [kind |-> r.kind, vertices |-> SeqSet(r.vertices), edges |-> SeqSet(r.edges),
     centers |-> SeqSet(r.centers), radius |-> r.radius]

\* the same custom polygon with its points listed the other way round
Rewound(ob) == [ob EXCEPT !.points = Reverse(@)]

\* p is strictly inside the polygon w (even-odd rule)
StrictlyInside(w, p) ==
    /\ ~OnBoundary(w, p)
    /\ Cardinality({i \in 1..Len(w) : RayCrosses(w[i], At(w, i + 1), p)}) % 2 = 1

\* the points a result is made of
ResultPoints(r) ==
    SeqSet(r.vertices) \cup UNION {{r.edges[i][1], r.edges[i][2]} : i \in 1..Len(r.edges)}

\* a uniform expansion of a custom polygon by one of the three methods
CustomPolygonCall ==
    /\ Called /\ obstacle.type = "custom_polygon" /\ ~DirectionalRequested
    /\ ResolvedDistance > 0 /\ ResolvedMethod \in Methods

\* C22: expand_obstacle on a custom polygon returns the same set of output
\* vertices, or of offset edges and arc centres, when the points are listed the
\* other way round, and no point of the result lies inside the polygon
C22_WindingIndependent ==
    CustomPolygonCall =>
        \E other \in {expand_obstacle(Rewound(obstacle), call.method, call.force_convex_hull,
                                      d_exp, force_convex_hull, call.start)},
           w \in {PassedPolygon} :
            /\ ResultSet(result) = ResultSet(other)
            /\ ReturnedBoundary
            /\ \A q \in ResultPoints(result) : ~StrictlyInside(w, q)
            /\ \A q \in ResultPoints(other) : ~StrictlyInside(w, q)

\* the square listed clockwise has been offset with mitered corners
C22_Witness ==
    /\ CustomPolygonCall
    /\ SignedArea(obstacle_to_vertices(obstacle)) < 0
    /\ Len(obstacle.points) = 4
    /\ result.kind = "polygon"
    /\ Len(result.vertices) = 4

-----------------------------------------------------------------------------
(* The canvas, the property panel and the polygon tool.  The user has one
   pointer: the panel and the tool buttons are used with the left button up.
   The preview shape, the cursor, the status bar and panning are display only
   and are left out, and so are snap to grid (off, as constructed), the convex
   hull toggle and the two deletions. *)

\* bound on the obstacles placed on the canvas
MaxObstacles == 2
\* bound on the user's actions in one session
MaxEvents == 6

\* qt_polygon_isect_line: the edge p1-p2 counts when pos lies level with it,
\* the lower end excluded, and not left of it
IsectLine(p1, p2, pos) ==
    LET lo == IF p1[2] <= p2[2] THEN p1 ELSE p2
        hi == IF p1[2] <= p2[2] THEN p2 ELSE p1
    IN  /\ p1[2] # p2[2]
        /\ pos[2] >= lo[2] /\ pos[2] < hi[2]
        /\ (lo[1] - pos[1]) * (hi[2] - lo[2]) + (hi[1] - lo[1]) * (pos[2] - lo[2]) <= 0

\* QPolygonF.containsPoint(pos, Qt.OddEvenFill)
containsPoint(polygon, pos) ==
    Cardinality({i \in 1..Len(polygon) : IsectLine(polygon[i], At(polygon, i + 1), pos)}) % 2 = 1

\* CollisionDetector.point_in_obstacle
point_in_obstacle(pos, ob) == containsPoint(get_obstacle_vertices(ob), <<Fx(pos[1]), Fx(pos[2])>>)

\* CollisionDetector.get_obstacle_at_position: the topmost obstacle under pos,
\* as a position in the list, 0 for None
get_obstacle_at_position(pos, list) ==
    LET hit == {i \in 1..Len(list) : point_in_obstacle(pos, list[i])}
    IN  IF hit = {} THEN 0 ELSE CHOOSE i \in hit : \A j \in hit : j <= i

\* Canvas.is_point_on_rotation_handle: within rotation_handle_size = 10 of the
\* top right corner, never for an obstacle that cannot rotate
is_point_on_rotation_handle(pos, ob) ==
    /\ ob.can_rotate
    /\ (pos[1] - (ob.x + ob.width)) * (pos[1] - (ob.x + ob.width))
        + (pos[2] - ob.y) * (pos[2] - ob.y) <= 10 * 10

\* Python's round(n / d) for d > 0: to the nearest integer, halves to the even one
RoundHalfEven(n, d) ==
    LET q == n \div d
        r == n % d
    IN  IF 2 * r < d THEN q
        ELSE IF 2 * r > d THEN q + 1
        ELSE IF q % 2 = 0 THEN q ELSE q + 1

\* PolygonEditor.snap_point_to_grid
snap_point_to_grid(point) ==
    <<RoundHalfEven(point[1], GridStep) * GridStep, RoundHalfEven(point[2], GridStep) * GridStep>>

\* PolygonEditor._remove_duplicate_points: a point is kept when it is more than
\* half a grid step from the last kept one
RECURSIVE CleanedFrom(_, _, _)
CleanedFrom(pts, i, cleaned) ==
    IF i > Len(pts) THEN cleaned
    ELSE LET last == cleaned[Len(cleaned)]
             dx == pts[i][1] - last[1]
             dy == pts[i][2] - last[2]
         IN  CleanedFrom(pts, i + 1,
                         IF 4 * (dx * dx + dy * dy) > GridStep * GridStep
                         THEN Append(cleaned, pts[i]) ELSE cleaned)

remove_duplicate_points(pts) ==
    IF Len(pts) < 2 THEN pts
    ELSE LET cleaned == CleanedFrom(pts, 2, <<pts[1]>>)
             last == cleaned[Len(cleaned)]
             dx == last[1] - cleaned[1][1]
             dy == last[2] - cleaned[1][2]
         IN  IF Len(cleaned) > 1 /\ 4 * (dx * dx + dy * dy) < GridStep * GridStep
             THEN SubSeq(cleaned, 1, Len(cleaned) - 1) ELSE cleaned

\* the dict Canvas.create_obstacle builds for the bounds of a drag
DraggedObstacle(id, shape_type, start_pos, end_pos) ==
    Obstacle(id, shape_type, Min2(start_pos[1], end_pos[1]), Min2(start_pos[2], end_pos[2]),
             Abs(end_pos[1] - start_pos[1]), Abs(end_pos[2] - start_pos[2]), <<>>)

\* PolygonEditor.create_obstacle with the properties finish_custom_polygon
\* adds; NoObstacle stands for None
PolygonObstacle(id, pts) ==
    LET cleaned_points == remove_duplicate_points(pts)
        S == SeqSet(cleaned_points)
        min_x == Least(S, 1)
        min_y == Least(S, 2)
        width == Most(S, 1) - min_x
        height == Most(S, 2) - min_y
    IN  IF Len(pts) < 3 \/ Len(cleaned_points) < 3 THEN NoObstacle
        ELSE IF width < 10 \/ height < 10 THEN NoObstacle
        ELSE Obstacle(id, "custom_polygon", min_x, min_y, width, height,
                      [i \in 1..Len(cleaned_points) |->
                            <<cleaned_points[i][1] - min_x, cleaned_points[i][2] - min_y>>])

-----------------------------------------------------------------------------
(* The user's actions on the canvas *)

\* the tools of the shape buttons that are modelled
Tools == {"rectangle", "custom"}

\* where the pointer is pressed, moved to and released
MousePositions == {<<0, 0>>, <<10, 10>>, <<35, 10>>, <<60, 60>>, <<66, 10>>, <<116, 60>>}

\* the texts typed into the x, y, width, height and rotation fields
PropertyNames == {"x", "y", "width", "height", "rotation"}
PropertyValues == {5, 90, 360}

\* the distances typed into the expansion fields and the methods of the combo box
BoxDistances == {10}
BoxMethods == {METHOD_PRESERVE_SHAPE}
DirectionNames == {"east"}

\* one more action of the user, counted
Event(c) == [c EXCEPT !.events = @ + 1]
Idle == ~canvas.left_down /\ canvas.events < MaxEvents

\* bool(QPoint): a point is true unless it is QPoint(0, 0); None is false
Truthy(point) == point # <<>> /\ point # <<0, 0>>

\* PolygonEditor.cancel_drawing
cancel_drawing == NewEditor
\* PolygonEditor.start_drawing
start_drawing == [points |-> <<>>, is_drawing |-> TRUE]

\* MainWindow.select_tool
SelectTool(tool) ==
    /\ Idle
    /\ main_window' = [current_tool |-> tool,
                       finish_polygon_btn |->
                            IF tool = "custom" THEN TRUE
                            ELSE IF canvas.is_drawing_polygon THEN FALSE
                            ELSE main_window.finish_polygon_btn]
    /\ canvas' = Event([canvas EXCEPT !.is_drawing_polygon = (tool = "custom")])
    /\ polygon_editor' = IF tool = "custom" THEN start_drawing
                         ELSE IF canvas.is_drawing_polygon THEN cancel_drawing
                         ELSE polygon_editor
    /\ UNCHANGED <<obstacles, selected_obstacle, engineVars>>

\* Canvas.mousePressEvent, left button
Press(pos) ==
    /\ ~canvas.left_down /\ canvas.events < MaxEvents
    /\ LET pressed == Event([canvas EXCEPT !.left_down = TRUE])
           clicked == get_obstacle_at_position(pos, obstacles)
       IN  IF canvas.is_drawing_polygon
           THEN /\ polygon_editor' =
                        IF polygon_editor.is_drawing
                        THEN [polygon_editor EXCEPT !.points = Append(@, snap_point_to_grid(pos))]
                        ELSE polygon_editor
                /\ canvas' = pressed
                /\ UNCHANGED <<obstacles, selected_obstacle, main_window>>
           ELSE IF selected_obstacle # 0 /\ is_point_on_rotation_handle(pos, obstacles[selected_obstacle])
           THEN /\ canvas' = [pressed EXCEPT !.is_rotating = TRUE]
                /\ UNCHANGED <<obstacles, selected_obstacle, main_window, polygon_editor>>
           ELSE IF clicked # 0
           THEN /\ selected_obstacle' = clicked
                /\ canvas' = [pressed EXCEPT !.is_moving = TRUE,
                                             !.move_offset = <<pos[1] - obstacles[clicked].x,
                                                               pos[2] - obstacles[clicked].y>>,
                                             !.original_position = <<obstacles[clicked].x, obstacles[clicked].y>>,
                                             !.move_has_overlap = FALSE]
                /\ UNCHANGED <<obstacles, main_window, polygon_editor>>
           ELSE /\ selected_obstacle' = IF selected_obstacle # 0 /\ ~canvas.is_drawing THEN 0
                                        ELSE selected_obstacle
                /\ IF main_window.current_tool \notin {"None", "custom"}
                   THEN /\ Len(obstacles) < MaxObstacles
                        /\ canvas' = [pressed EXCEPT !.is_drawing = TRUE, !.draw_start_pos = pos]
                   ELSE canvas' = pressed
                /\ UNCHANGED <<obstacles, main_window, polygon_editor>>
    /\ UNCHANGED engineVars

check_move_overlap_never(list, selected) == FALSE

\* Canvas.check_move_overlap on the list as it will be
check_move_overlap(list, selected) == check_overlap(list[selected], list, list[selected])

\* Canvas.mouseMoveEvent while an obstacle is rotated or moved; the pointer is
\* kept level with or straight above or below the centre while rotating
Move(pos) ==
    /\ canvas.events < MaxEvents
    /\ selected_obstacle # 0
    /\ LET ob == obstacles[selected_obstacle]
           dx == 2 * pos[1] - (2 * ob.x + ob.width)
           dy == 2 * pos[2] - (2 * ob.y + ob.height)
       IN  \/ /\ canvas.is_rotating
              /\ dx = 0 \/ dy = 0
              /\ obstacles' = IF ~ob.can_rotate THEN obstacles
                              ELSE [obstacles EXCEPT ![selected_obstacle].rotation = Atan2Deg(dy, dx) % 360]
              /\ canvas' = Event(canvas)
           \/ /\ ~canvas.is_rotating /\ canvas.is_moving
              /\ \E moved \in {[obstacles EXCEPT ![selected_obstacle].x = pos[1] - canvas.move_offset[1],
                                                 ![selected_obstacle].y = pos[2] - canvas.move_offset[2]]} :
                    /\ obstacles' = moved
                    /\ canvas' = Event([canvas EXCEPT !.move_has_overlap =
                                                            check_move_overlap(moved, selected_obstacle)])
    /\ UNCHANGED <<selected_obstacle, main_window, polygon_editor, engineVars>>

create_obstacle_any_size(list, shape_type, start_pos, end_pos) ==
    LET ob == DraggedObstacle(Len(list) + 1, shape_type, start_pos, end_pos)
    IN  IF check_overlap(ob, list, NoObstacle) THEN list ELSE Append(list, ob)

\* Canvas.create_obstacle: the list after a drag from start_pos to end_pos
create_obstacle(list, shape_type, start_pos, end_pos) ==
    LET ob == DraggedObstacle(Len(list) + 1, shape_type, start_pos, end_pos)
    IN  IF ob.width < 10 \/ ob.height < 10 THEN list
        ELSE IF check_overlap(ob, list, NoObstacle) THEN list
        ELSE Append(list, ob)

\* Canvas.mouseReleaseEvent, left button
Release(pos) ==
    /\ canvas.left_down /\ canvas.events < MaxEvents
    /\ LET released == Event([canvas EXCEPT !.left_down = FALSE])
       IN  IF canvas.is_rotating
           THEN /\ canvas' = [released EXCEPT !.is_rotating = FALSE]
                /\ UNCHANGED obstacles
           ELSE IF canvas.is_moving
           THEN /\ obstacles' =
                        IF canvas.move_has_overlap /\ canvas.original_position # <<>>
                        THEN [obstacles EXCEPT ![selected_obstacle].x = canvas.original_position[1],
                                               ![selected_obstacle].y = canvas.original_position[2]]
                        ELSE obstacles
                /\ canvas' = [released EXCEPT !.is_moving = FALSE, !.move_has_overlap = FALSE,
                                              !.original_position = <<>>]
           ELSE IF canvas.is_drawing
           THEN /\ obstacles' =
                        IF Truthy(canvas.draw_start_pos)
                        THEN create_obstacle(obstacles, main_window.current_tool, canvas.draw_start_pos, pos)
                        ELSE obstacles
                /\ canvas' = [released EXCEPT !.is_drawing = FALSE, !.draw_start_pos = <<>>]
           ELSE /\ canvas' = released
                /\ UNCHANGED obstacles
    /\ UNCHANGED <<selected_obstacle, main_window, polygon_editor, engineVars>>

ChangedProperty_unchecked(list, selected, property_name, value) ==
    IF property_name = "rotation" THEN [list[selected] EXCEPT !.rotation = value]
    ELSE list[selected]

\* the selected obstacle after MainWindow.on_property_changed
ChangedProperty(list, selected, property_name, value) ==
    LET ob == list[selected]
        changed == CASE property_name = "rotation" -> [ob EXCEPT !.rotation = value % 360]
                     [] property_name = "x" -> [ob EXCEPT !.x = value]
                     [] property_name = "y" -> [ob EXCEPT !.y = value]
                     [] property_name = "width" -> [ob EXCEPT !.width = value]
                     [] property_name = "height" -> [ob EXCEPT !.height = value]
    IN  IF property_name = "rotation" /\ ~ob.can_rotate THEN ob
        ELSE IF property_name \in {"width", "height"} /\ value < 10 THEN ob
        ELSE IF property_name # "rotation"
                /\ check_overlap(changed, [list EXCEPT ![selected] = changed], changed) THEN ob
        ELSE changed

\* MainWindow.on_property_changed
PropertyChanged(property_name, value) ==
    /\ Idle
    /\ selected_obstacle # 0
    /\ property_name = "rotation" => value % 18 = 0
    /\ obstacles' = [obstacles EXCEPT ![selected_obstacle] =
                            ChangedProperty(obstacles, selected_obstacle, property_name, value)]
    /\ canvas' = Event(canvas)
    /\ UNCHANGED <<selected_obstacle, main_window, polygon_editor, engineVars>>

BasicShapes == {"rectangle", "triangle", "pentagon", "hexagon"}

\* MainWindow.add_collision_box with a positive distance in the field
AddCollisionBox(distance, method) ==
    /\ Idle
    /\ selected_obstacle # 0
    /\ distance > 0
    /\ obstacles' = [obstacles EXCEPT ![selected_obstacle] =
            [@ EXCEPT !.expansion_distance = distance,
                      !.expansion_method = method,
                      !.use_directional_expansion = FALSE,
                      !.keys = @ \cup {"expansion_distance"},
                      !.directional_expansion =
                            IF obstacles[selected_obstacle].type \in BasicShapes
                            THEN [north |-> distance, south |-> distance, east |-> distance, west |-> distance]
                            ELSE @]]
    /\ canvas' = Event(canvas)
    /\ UNCHANGED <<selected_obstacle, main_window, polygon_editor, engineVars>>

\* MainWindow.on_directional_expansion_changed
DirectionalChanged(direction, value) ==
    /\ Idle
    /\ selected_obstacle # 0
    /\ obstacles[selected_obstacle].type \in BasicShapes
    /\ value >= 0
    /\ obstacles' = [obstacles EXCEPT ![selected_obstacle] =
            [@ EXCEPT !.directional_expansion[direction] = value,
                      !.use_directional_expansion = TRUE]]
    /\ canvas' = Event(canvas)
    /\ UNCHANGED <<selected_obstacle, main_window, polygon_editor, engineVars>>

\* PolygonEditor.can_finish
can_finish == Len(polygon_editor.points) >= 3

\* MainWindow.finish_polygon with Canvas.finish_custom_polygon; the button
\* answers only while it is enabled
FinishPolygon ==
    /\ Idle
    /\ main_window.finish_polygon_btn
    /\ can_finish
    /\ Len(obstacles) < MaxObstacles
    /\ \E ob \in {PolygonObstacle(Len(obstacles) + 1, polygon_editor.points)} :
        IF ob # NoObstacle /\ ~check_overlap(ob, obstacles, NoObstacle)
        THEN /\ obstacles' = Append(obstacles, ob)
             /\ polygon_editor' = cancel_drawing
             /\ canvas' = Event([canvas EXCEPT !.is_drawing_polygon = FALSE])
        ELSE /\ canvas' = Event(canvas)
             /\ UNCHANGED <<obstacles, polygon_editor>>
    /\ main_window' = [current_tool |-> "None", finish_polygon_btn |-> FALSE]
    /\ UNCHANGED <<selected_obstacle, engineVars>>

\* Canvas.keyPressEvent, Key_Escape while a polygon is drawn
Escape ==
    /\ Idle
    /\ canvas.is_drawing_polygon
    /\ polygon_editor' = cancel_drawing
    /\ canvas' = Event([canvas EXCEPT !.is_drawing_polygon = FALSE])
    /\ main_window' = [current_tool |-> "None", finish_polygon_btn |-> FALSE]
    /\ UNCHANGED <<obstacles, selected_obstacle, engineVars>>

\* the two squares a user drags with the rectangle tool, 6 apart
SquareA == DraggedObstacle(1, "rectangle", <<10, 10>>, <<60, 60>>)
SquareB == DraggedObstacle(2, "rectangle", <<66, 10>>, <<116, 60>>)

\* the triangle a user clicks with the polygon tool
TriangleP == PolygonObstacle(1, << <<0, 0>>, <<60, 0>>, <<60, 60>> >>)

\* the sessions a run starts from: the empty canvas of the constructor, the
\* canvas after the two squares were dragged or after the triangle was
\* clicked and the second square dragged, and a polygon with two points
\* clicked, on the empty canvas and next to the first square
Sessions ==
    {[obstacles |-> <<>>, main_window |-> NewWindow, canvas |-> NewCanvas, polygon_editor |-> NewEditor]}
    \cup {[obstacles |-> list, main_window |-> [NewWindow EXCEPT !.current_tool = "rectangle"],
           canvas |-> NewCanvas, polygon_editor |-> NewEditor] :
                list \in {<<SquareA, SquareB>>, <<TriangleP, SquareB>>}}
    \cup {[obstacles |-> list, main_window |-> [current_tool |-> "custom", finish_polygon_btn |-> TRUE],
           canvas |-> [NewCanvas EXCEPT !.is_drawing_polygon = TRUE],
           polygon_editor |-> [points |-> << <<0, 0>>, <<60, 0>> >>, is_drawing |-> TRUE]] :
                list \in {<<>>, <<SquareA>>}}

InitCanvas ==
    /\ EngineIdle /\ WindingIdle /\ OverlapIdle /\ PolygonIdle /\ ThreadsIdle
    /\ \E s \in Sessions :
        /\ obstacles = s.obstacles /\ selected_obstacle = 0 /\ canvas = s.canvas
        /\ main_window = s.main_window /\ polygon_editor = s.polygon_editor

NextCanvas ==
    \/ \E tool \in Tools : SelectTool(tool)
    \/ \E pos \in MousePositions : Press(pos)
    \/ \E pos \in MousePositions : Move(pos)
    \/ \E pos \in MousePositions : Release(pos)
    \/ \E property_name \in PropertyNames, value \in PropertyValues : PropertyChanged(property_name, value)
    \/ \E distance \in BoxDistances, method \in BoxMethods : AddCollisionBox(distance, method)
    \/ \E direction \in DirectionNames, value \in BoxDistances : DirectionalChanged(direction, value)
    \/ FinishPolygon
    \/ Escape

SpecCanvas == InitCanvas /\ [][NextCanvas]_vars

-----------------------------------------------------------------------------
(* Claims about the canvas *)

\* no obstacle overlaps another one of the list, itself excluded
NoOverlap(list) == \A i \in 1..Len(list) : ~check_overlap(list[i], list, list[i])

\* C23: once the left button is up, after any creation, move, rotation,
\* property edit, collision box or directional expansion, check_overlap of
\* every obstacle against the others is false
C23_NoOverlapOnCanvas == ~canvas.left_down => NoOverlap(obstacles)

SmallExtent(S) == Most(S, 1) - Least(S, 1) < 10 \/ Most(S, 2) - Least(S, 2) < 10

\* C24: every stored obstacle is at least 10 wide and 10 high; a drag, a
\* finished polygon and a width or height edit below 10 are rejected and
\* leave the list and the obstacle as they were
C24_MinimumSize ==
    /\ \A i \in 1..Len(obstacles) : obstacles[i].width >= 10 /\ obstacles[i].height >= 10
    /\ \A start_pos \in MousePositions, end_pos \in MousePositions :
            SmallExtent({start_pos, end_pos}) =>
                create_obstacle(obstacles, "rectangle", start_pos, end_pos) = obstacles
    /\ \A pos \in MousePositions :
            LET pts == Append(polygon_editor.points, snap_point_to_grid(pos))
            IN  SmallExtent(SeqSet(pts)) => PolygonObstacle(Len(obstacles) + 1, pts) = NoObstacle
    /\ selected_obstacle # 0 =>
            \A property_name \in {"width", "height"}, value \in PropertyValues :
                value < 10 => ChangedProperty(obstacles, selected_obstacle, property_name, value)
                                = obstacles[selected_obstacle]

\* a finished polygon is stored and selected, its width has been edited to 90
\* and a height of 5 is refused
C24_Witness ==
    /\ selected_obstacle # 0
    /\ obstacles[selected_obstacle].type = "custom_polygon"
    /\ obstacles[selected_obstacle].width = 90
    /\ ChangedProperty(obstacles, selected_obstacle, "height", 5) = obstacles[selected_obstacle]

\* C25: every rotation on the canvas lies in [0, 360), and an obstacle that
\* cannot rotate keeps rotation 0: it has no handle, is never being rotated
\* and refuses the rotation field
C25_RotationRange ==
    /\ \A i \in 1..Len(obstacles) :
            /\ 0 <= obstacles[i].rotation /\ obstacles[i].rotation < 360
            /\ ~obstacles[i].can_rotate => obstacles[i].rotation = 0
    /\ (selected_obstacle # 0 /\ ~obstacles[selected_obstacle].can_rotate) =>
            /\ ~canvas.is_rotating
            /\ \A pos \in MousePositions : ~is_point_on_rotation_handle(pos, obstacles[selected_obstacle])
            /\ \A value \in PropertyValues :
                    ChangedProperty(obstacles, selected_obstacle, "rotation", value)
                        = obstacles[selected_obstacle]

\* a rectangle has been turned by its handle, or by the field next to a
\* polygon that is selected now
C25_Witness ==
    /\ \E i \in 1..Len(obstacles) : obstacles[i].rotation \in {90, 270}
    /\ \/ canvas.is_rotating
       \/ selected_obstacle # 0 /\ ~obstacles[selected_obstacle].can_rotate

Position(ob) == <<ob.x, ob.y>>
DragStarts == ~canvas.is_moving /\ canvas'.is_moving
DragEnds == canvas.is_moving /\ canvas.left_down /\ ~canvas'.left_down
Dragged == obstacles[selected_obstacle]

\* C26: a drag remembers the position at the press; at the release the
\* dragged obstacle goes back there when where it was moved to overlaps
\* another obstacle, and stays where it is when it does not; either way the
\* release clears is_moving, move_has_overlap and original_position
DragStep ==
    /\ DragStarts => canvas'.original_position = Position(obstacles[selected_obstacle'])
    /\ DragEnds =>
        /\ selected_obstacle' = selected_obstacle
        /\ LET overlaps == check_overlap(Dragged, obstacles, Dragged)
           IN  /\ (overlaps /\ Position(Dragged) # canvas.original_position) =>
                    obstacles' = [obstacles EXCEPT ![selected_obstacle].x = canvas.original_position[1],
                                                   ![selected_obstacle].y = canvas.original_position[2]]
               /\ ~overlaps => obstacles' = obstacles
               /\ Position(obstacles'[selected_obstacle]) \in {Position(Dragged), canvas.original_position}
        /\ ~canvas'.is_moving /\ ~canvas'.move_has_overlap /\ canvas'.original_position = <<>>

C26_MoveAllOrNothing == [][DragStep]_vars

\* an obstacle has been dragged onto a place where it overlaps another one
C26_Witness ==
    /\ canvas.is_moving /\ canvas.move_has_overlap
    /\ Position(obstacles[selected_obstacle]) # canvas.original_position

-----------------------------------------------------------------------------
(* Claims about the pairwise verdict *)

\* C27: the verdict for a pair does not depend on which obstacle is checked
\* and which is placed: check_overlap(A, [B]) = check_overlap(B, [A])
C27_VerdictSymmetric ==
    OnePlaced => overlap = check_overlap(obstacles_list[1], <<obstacle>>, NoObstacle)

-----------------------------------------------------------------------------
(* Claims about the boundary the detector tests *)

\* the boundary the canvas draws: expander.expand_obstacle(obstacle) on the
\* canvas's expander, as a polygon; <<>> when the engine returns None
DrawnBoundary(ob) ==
    BoundaryVertices(expand_obstacle(ob, "None", "None", ConstructedDistance, FALSE, 0))

\* C28: whenever the engine returns a boundary for an obstacle of the canvas
\* and that boundary comes within the spacing of another obstacle's shape,
\* check_overlap of the pair is true
C28_DetectorSeesEveryBoundary ==
    \A i \in 1..Len(obstacles), j \in 1..Len(obstacles) :
        \E boundary \in {DrawnBoundary(obstacles[i])} :
            (/\ i # j
             /\ boundary # <<>>
             /\ check_polygon_overlap(boundary, get_obstacle_vertices(obstacles[j]), min_spacing)) =>
                check_overlap(obstacles[i], <<obstacles[j]>>, NoObstacle)

\* C29: the polygon get_expanded_vertices samples from the arc boundary of an
\* unrotated rectangle stays out of the rectangle and contains it: no sampled
\* point lies inside the raw shape and no raw corner lies outside the polygon
C29_SampledArcsStayOutside ==
    (/\ Checked /\ obstacles_list # <<>>
     /\ Unrotated(obstacle)
     /\ obstacle.expansion_method = METHOD_GENERALIZED
     /\ GetDistance(obstacle, 0) > 0) =>
        \E sampled \in {get_expanded_vertices(obstacle)}, raw \in {get_obstacle_vertices(obstacle)} :
            /\ sampled # <<>>
            /\ \A k \in 1..Len(sampled) : ~StrictlyInside(raw, sampled[k])
            /\ \A k \in 1..Len(raw) : ~StrictlyOutside(sampled, raw[k])

-----------------------------------------------------------------------------
(* Claims about the polygon tool *)

\* C30: while the canvas is drawing a polygon the Finish Polygon button is
\* enabled and the polygon editor is drawing, also after a Finish that was
\* refused
C30_DrawingKeepsButton ==
    canvas.is_drawing_polygon => (main_window.finish_polygon_btn /\ polygon_editor.is_drawing)

====
